---- MODULE Spec2Model ----
(***************************************************************************)
(* A model of the collaborative data tree (Doc, LiveObject, LiveMap,       *)
(* LiveList, LiveRegister): one replica's document, its operation          *)
(* streams, its undo/redo stacks, batching and subscriber notification.    *)
(*                                                                         *)
(* Strings (object keys, map keys, list positions) are sequences of        *)
(* character codes.  A node id "<actor>:<clock>" is the pair               *)
(* <<actor, clock>>; the undefined id and the undefined key are <<>>.      *)
(***************************************************************************)
EXTENDS Integers, Sequences, FiniteSets, TLC

VARIABLES doc, peer, net, out, last, pre, batchPre, batchLog

vars == <<doc, peer, net, out, last, pre, batchPre, batchLog>>

(***************************************************************************)
(* Bounds of the model                                                     *)
(***************************************************************************)
MaxCalls == 3
MaxSubs == 1
MaxRemoteCalls == 3
MaxBatchCalls == 5
MaxCapUpdates == 1
MaxCapCalls == 52
MaxConvOps == 2

(***************************************************************************)
(* Program constants                                                       *)
(***************************************************************************)
MAX_UNDO_STACK == 50

NoId == <<>>
NoKey == <<>>

(***************************************************************************)
(* Generic helpers                                                         *)
(***************************************************************************)
Last(s) == s[Len(s)]
Front(s) == SubSeq(s, 1, Len(s) - 1)
Range(s) == {s[i] : i \in 1..Len(s)}

RECURSIVE SeqConcat(_)
SeqConcat(ss) == IF ss = <<>> THEN <<>> ELSE Head(ss) \o SeqConcat(Tail(ss))

RemoveAt(s, i) == SubSeq(s, 1, i - 1) \o SubSeq(s, i + 1, Len(s))

(***************************************************************************)
(* Position algebra (./position): positions are strings over the codes     *)
(* PosMin..PosMax, ordered lexicographically, a missing tail code counting *)
(* as PosMin.                                                              *)
(***************************************************************************)
PosMin == 0
PosMax == 4

CodeAt(p, i, dflt) == IF i <= Len(p) THEN p[i] ELSE dflt

RECURSIVE compareFrom(_, _, _)
compareFrom(a, b, i) ==
    IF i > Len(a) /\ i > Len(b) THEN 0
    ELSE LET x == CodeAt(a, i, PosMin)
             y == CodeAt(b, i, PosMin)
         IN  IF x = y THEN compareFrom(a, b, i + 1)
             ELSE IF x < y THEN -1 ELSE 1

compare(a, b) == compareFrom(a, b, 1)

RECURSIVE getPreviousPosition(_, _)
getPreviousPosition(after, i) ==
    IF i > Len(after) THEN <<>>
    ELSE IF after[i] <= PosMin + 1
         THEN IF i = Len(after) THEN <<PosMin, PosMax>>
              ELSE <<PosMin>> \o getPreviousPosition(after, i + 1)
         ELSE <<after[i] - 1>>

RECURSIVE getNextPosition(_, _)
getNextPosition(before, i) ==
    IF i > Len(before) THEN <<>>
    ELSE IF before[i] = PosMax
         THEN IF i = Len(before) THEN <<PosMax, PosMin + 1>>
              ELSE <<PosMax>> \o getNextPosition(before, i + 1)
         ELSE <<before[i] + 1>>

RECURSIVE makePositionFromCodes(_, _, _)
makePositionFromCodes(before, after, i) ==
    LET b == CodeAt(before, i, PosMin)
        a == CodeAt(after, i, PosMax)
    IN  IF b >= a
        THEN <<b>> \o makePositionFromCodes(before, after, i + 1)
        ELSE IF a - b = 1
             THEN <<b>> \o makePositionFromCodes(SubSeq(before, i + 1, Len(before)), <<>>, 1)
             ELSE <<(a + b) \div 2>>

\* makePosition(before?, after?), NoKey standing for an absent bound
makePosition(before, after) ==
    IF before = NoKey /\ after = NoKey THEN <<PosMin + 1>>
    ELSE IF after = NoKey THEN getNextPosition(before, 1)
    ELSE IF before = NoKey THEN getPreviousPosition(after, 1)
    ELSE makePositionFromCodes(before, after, 1)

(***************************************************************************)
(* Values.  A scalar is wrapped as S(v); a child node held by a container  *)
(* is NodeRef(id); JavaScript's undefined is Undef.  A node instance that  *)
(* is detached (no doc, no parent, not in the id index) but still held as  *)
(* a value is Detached(snap), snap being the instance's serialization.     *)
(***************************************************************************)
S(v) == [tag |-> "s", v |-> v]
NodeRef(id) == [tag |-> "n", id |-> id]
Detached(snap) == [tag |-> "d", snap |-> snap]
Undef == [tag |-> "u"]
Tpl(t) == [tag |-> "t", tpl |-> t]

\* isCrdt(obj) / obj instanceof AbstractCrdt
isCrdt(v) == v.tag \in {"n", "d"}

(***************************************************************************)
(* Insertion-ordered dictionaries (JavaScript Map, object literals):       *)
(* sequences of [k, v] entries with pairwise distinct k.                   *)
(***************************************************************************)
E(k, v) == [k |-> k, v |-> v]
MapKeys(m) == {m[i].k : i \in 1..Len(m)}
MapHas(m, k) == k \in MapKeys(m)
MapIdx(m, k) == CHOOSE i \in 1..Len(m) : m[i].k = k
MapGet(m, k) == IF MapHas(m, k) THEN m[MapIdx(m, k)].v ELSE Undef
MapSet(m, k, v) ==
    IF MapHas(m, k) THEN [m EXCEPT ![MapIdx(m, k)] = E(k, v)] ELSE Append(m, E(k, v))
MapDelete(m, k) == IF MapHas(m, k) THEN RemoveAt(m, MapIdx(m, k)) ELSE m
MapFilter(m, Keep(_)) == SelectSeq(m, LAMBDA e : Keep(e.v))
\* the dictionary as a function, forgetting insertion order
MapFn(m) == [k \in MapKeys(m) |-> MapGet(m, k)]

(***************************************************************************)
(* Operations (./live, Op).  An UpdateObject without opId has opId = NoId. *)
(***************************************************************************)
\* the JSON object an op carries as its data, from its ordered entries
JsonObject(m) == [tag |-> "o", map |-> m]

CreateObjectOp(id, parentId, parentKey, data) ==
    [type |-> "CreateObject", id |-> id, parentId |-> parentId, parentKey |-> parentKey,
     data |-> JsonObject(data)]
CreateMapOp(id, parentId, parentKey) ==
    [type |-> "CreateMap", id |-> id, parentId |-> parentId, parentKey |-> parentKey]
CreateListOp(id, parentId, parentKey) ==
    [type |-> "CreateList", id |-> id, parentId |-> parentId, parentKey |-> parentKey]
CreateRegisterOp(id, parentId, parentKey, data) ==
    [type |-> "CreateRegister", id |-> id, parentId |-> parentId, parentKey |-> parentKey,
     data |-> data]
UpdateObjectOp(id, data, opId) ==
    [type |-> "UpdateObject", id |-> id, data |-> JsonObject(data), opId |-> opId]
DeleteObjectKeyOp(id, key) == [type |-> "DeleteObjectKey", id |-> id, key |-> key]
DeleteCrdtOp(id) == [type |-> "DeleteCrdt", id |-> id]
SetParentKeyOp(id, parentKey) == [type |-> "SetParentKey", id |-> id, parentKey |-> parentKey]

CreateTypes == {"CreateObject", "CreateMap", "CreateList", "CreateRegister"}

(***************************************************************************)
(* Nodes.  The id index (Doc.#items) maps the id of every attached node to *)
(* its record: the stored parent link (#parent as the parent's id,         *)
(* #parentKey) and the variant's own fields.                               *)
(***************************************************************************)
NoData == [tag |-> "none"]

Node(type, parent, parentKey, map, items, data) ==
    [type |-> type, parent |-> parent, parentKey |-> parentKey,
     map |-> map, pend |-> <<>>, items |-> items, data |-> data]

\* LiveList item [crdt, position]
Item(id, pos) == [id |-> id, pos |-> pos]

\* the ids of the children a container holds (attached instances only)
ChildIds(n) ==
    {n.map[i].v.id : i \in {j \in 1..Len(n.map) : n.map[j].v.tag = "n"}}
        \cup {n.items[i].id : i \in 1..Len(n.items)}

\* items.sort((a, b) => compare(a[1], b[1])): a stable sort
RECURSIVE InsertSorted(_, _)
InsertSorted(sorted, it) ==
    IF sorted = <<>> THEN <<it>>
    ELSE IF compare(Last(sorted).pos, it.pos) <= 0 THEN Append(sorted, it)
         ELSE Append(InsertSorted(Front(sorted), it), Last(sorted))

RECURSIVE SortItems(_)
SortItems(its) ==
    IF its = <<>> THEN <<>> ELSE InsertSorted(SortItems(Front(its)), Last(its))

\* findIndex: the first index whose entry satisfies P, 0 for JavaScript's -1
FindIndex(s, P(_)) ==
    IF \E i \in 1..Len(s) : P(s[i])
    THEN CHOOSE i \in 1..Len(s) : P(s[i]) /\ \A j \in 1..(i - 1) : ~P(s[j])
    ELSE 0

(***************************************************************************)
(* _serialize(parentId, parentKey): the creation op of the node followed   *)
(* by the serialization of its children, in the container's own order.     *)
(***************************************************************************)
Reparent(snap, parentId, parentKey) ==
    [snap EXCEPT ![1] = [@ EXCEPT !.parentId = parentId, !.parentKey = parentKey]]

RECURSIVE Serialize(_, _, _, _)
SerializeValue(items, v, parentId, parentKey) ==
    IF v.tag = "n" THEN Serialize(items, v.id, parentId, parentKey)
    ELSE IF v.tag = "d" THEN Reparent(v.snap, parentId, parentKey)
    ELSE <<>>

Serialize(items, id, parentId, parentKey) ==
    LET n == items[id]
    IN  CASE n.type = "Object" ->
                <<CreateObjectOp(id, parentId, parentKey, MapFilter(n.map, LAMBDA v : ~isCrdt(v)))>>
                \o SeqConcat([i \in 1..Len(n.map) |->
                        SerializeValue(items, n.map[i].v, id, n.map[i].k)])
          [] n.type = "Map" ->
                <<CreateMapOp(id, parentId, parentKey)>>
                \o SeqConcat([i \in 1..Len(n.map) |->
                        SerializeValue(items, n.map[i].v, id, n.map[i].k)])
          [] n.type = "List" ->
                <<CreateListOp(id, parentId, parentKey)>>
                \o SeqConcat([i \in 1..Len(n.items) |->
                        Serialize(items, n.items[i].id, id, n.items[i].pos)])
          [] OTHER ->
                <<CreateRegisterOp(id, parentId, parentKey, n.data)>>

(***************************************************************************)
(* _detach(): the node and, recursively, the children it holds leave the   *)
(* id index.                                                               *)
(***************************************************************************)
RECURSIVE Descendants(_, _)
Descendants(items, id) ==
    IF id \notin DOMAIN items THEN {}
    ELSE {id} \cup UNION {Descendants(items, c) : c \in ChildIds(items[id])}

Restrict(f, D) == [x \in D |-> f[x]]

Detach(items, id) == Restrict(items, DOMAIN items \ Descendants(items, id))

\* _detach() of a value held by a container: only an attached instance is indexed
DetachValue(items, v) == IF v.tag = "n" THEN Detach(items, v.id) ELSE items

(***************************************************************************)
(* Applying one operation.  An apply result is                             *)
(*   [d, modified, reverse, op, err]:                                      *)
(* the document after the apply, the id of the modified node (NoId for     *)
(* `modified: false`), the reverse ops, the op as the apply left it (an    *)
(* UpdateObject without opId gets one in place) and whether it threw.      *)
(***************************************************************************)
Result(d, modified, reverse, op) ==
    [d |-> d, modified |-> modified, reverse |-> reverse, op |-> op, err |-> FALSE]
NotModified(d, op) == Result(d, NoId, <<>>, op)
Thrown(d, op) == [d |-> d, modified |-> NoId, reverse |-> <<>>, op |-> op, err |-> TRUE]

WithItems(d, items) == [d EXCEPT !.items = items]

\* doc.generateId() / doc.generateOpId(): the value minted
generateId(d) == <<d.actor, d.clock>>
generateOpId(d) == <<d.actor, d.opClock>>

\* LiveObject._attachChild(id, key, child)
ObjectAttachChild(d, pid, id, key, child, op) ==
    LET p == d.items[pid]
        previousValue == MapGet(p.map, key)
        reverse == IF isCrdt(previousValue)
                   THEN SerializeValue(d.items, previousValue, pid, key)
                   ELSE IF previousValue = Undef
                        THEN <<DeleteObjectKeyOp(pid, key)>>
                        ELSE <<UpdateObjectOp(pid, <<E(key, previousValue)>>, NoId)>>
        items1 == DetachValue(d.items, previousValue)
        items2 == [x \in DOMAIN items1 \cup {id} |->
                     IF x = id THEN [child EXCEPT !.parent = pid, !.parentKey = key]
                     ELSE IF x = pid THEN [p EXCEPT !.map = MapSet(p.map, key, NodeRef(id))]
                     ELSE items1[x]]
    IN  Result(WithItems(d, items2), pid, reverse, op)

\* LiveMap._attachChild(id, key, child)
MapAttachChild(d, pid, id, key, child, op) ==
    LET p == d.items[pid]
        previousValue == MapGet(p.map, key)
        reverse == IF previousValue # Undef
                   THEN SerializeValue(d.items, previousValue, pid, key)
                   ELSE <<DeleteCrdtOp(id)>>
        items1 == DetachValue(d.items, previousValue)
        items2 == [x \in DOMAIN items1 \cup {id} |->
                     IF x = id THEN [child EXCEPT !.parent = pid, !.parentKey = key]
                     ELSE IF x = pid THEN [p EXCEPT !.map = MapSet(p.map, key, NodeRef(id))]
                     ELSE items1[x]]
    IN  Result(WithItems(d, items2), pid, reverse, op)

\* no temporary position: the item that already holds `key` keeps it
RepositionNever(its, key) == its

\* the temporary position given to the item that already holds `key`
Reposition(its, key) ==
    LET index == FindIndex(its, LAMBDA e : e.pos = key)
    IN  IF index = 0 THEN its
        ELSE [its EXCEPT ![index].pos =
                 makePosition(key, IF index + 1 <= Len(its) THEN its[index + 1].pos ELSE NoKey)]

\* LiveList._attachChild(id, key, child)
ListAttachChild(d, pid, id, key, child, op) ==
    LET p == d.items[pid]
        its == SortItems(Append(Reposition(p.items, key), Item(id, key)))
        items2 == [x \in DOMAIN d.items \cup {id} |->
                     IF x = id THEN [child EXCEPT !.parent = pid, !.parentKey = key]
                     ELSE IF x = pid THEN [p EXCEPT !.items = its]
                     ELSE d.items[x]]
    IN  Result(WithItems(d, items2), pid, <<DeleteCrdtOp(id)>>, op)

\* _attachChild of the parent's variant; LiveRegister's throws
AttachChild(d, pid, id, key, child, op) ==
    CASE d.items[pid].type = "Object" -> ObjectAttachChild(d, pid, id, key, child, op)
      [] d.items[pid].type = "Map" -> MapAttachChild(d, pid, id, key, child, op)
      [] d.items[pid].type = "List" -> ListAttachChild(d, pid, id, key, child, op)
      [] OTHER -> Thrown(d, op)

\* _detachChild(child) of the parent's variant
DetachChild(items, pid, cid) ==
    LET p == items[pid]
        kept == IF p.type = "List"
                THEN LET indexToDelete == FindIndex(p.items, LAMBDA e : e.id = cid)
                     IN  [p EXCEPT !.items =
                            IF indexToDelete = 0 THEN Front(p.items)   \* splice(-1, 1)
                            ELSE RemoveAt(p.items, indexToDelete)]
                ELSE [p EXCEPT !.map = MapFilter(p.map, LAMBDA v : v # NodeRef(cid))]
    IN  Detach([items EXCEPT ![pid] = kept], cid)

\* _setChildKey that leaves the items unsorted
ListSetChildKeyUnsorted(items, pid, key, cid) ==
    LET p == items[pid]
        its1 == Reposition(p.items, key)
        its2 == [i \in 1..Len(its1) |->
                    IF i = FindIndex(its1, LAMBDA e : e.id = cid)
                    THEN Item(cid, key) ELSE its1[i]]
    IN  [items EXCEPT ![pid].items = its2, ![cid].parentKey = key]

\* LiveList._setChildKey(key, child)
ListSetChildKey(items, pid, key, cid) ==
    LET p == items[pid]
        its1 == Reposition(p.items, key)
        its2 == [i \in 1..Len(its1) |->
                    IF i = FindIndex(its1, LAMBDA e : e.id = cid)
                    THEN Item(cid, key) ELSE its1[i]]
    IN  [items EXCEPT ![pid].items = SortItems(its2), ![cid].parentKey = key]

\* the instance a creation op constructs: new LiveObject(op.data), new LiveMap(), ...
NewFromOp(op) ==
    CASE op.type = "CreateObject" -> Node("Object", NoId, NoKey, op.data.map, <<>>, NoData)
      [] op.type = "CreateMap" -> Node("Map", NoId, NoKey, <<>>, <<>>, NoData)
      [] op.type = "CreateList" -> Node("List", NoId, NoKey, <<>>, <<>>, NoData)
      [] OTHER -> Node("Register", NoId, NoKey, <<>>, <<>>, op.data)

\* _apply whose Create* ops attach the new node whether or not the id is in
\* the index
AbstractApplyOverwriting(d, id, op) ==
    LET n == d.items[id]
    IN  CASE op.type = "DeleteCrdt" ->
               IF n.parent # NoId /\ n.parentKey # NoKey
               THEN Result(WithItems(d, DetachChild(d.items, n.parent, id)), id,
                           Serialize(d.items, id, n.parent, n.parentKey), op)
               ELSE NotModified(d, op)
          [] op.type \in CreateTypes ->
               AttachChild(d, id, op.id, op.parentKey, NewFromOp(op), op)
          [] op.type = "SetParentKey" ->
               IF n.parent = NoId THEN NotModified(d, op)
               ELSE IF d.items[n.parent].type = "List"
                    THEN Result(WithItems(d, ListSetChildKey(d.items, n.parent, op.parentKey, id)),
                                id, <<SetParentKeyOp(id, n.parentKey)>>, op)
                    ELSE NotModified(d, op)
          [] OTHER -> NotModified(d, op)

\* AbstractCrdt._apply(op) on the node `id`
AbstractApply(d, id, op) ==
    LET n == d.items[id]
    IN  CASE op.type = "DeleteCrdt" ->
               IF n.parent # NoId /\ n.parentKey # NoKey
               THEN Result(WithItems(d, DetachChild(d.items, n.parent, id)), id,
                           Serialize(d.items, id, n.parent, n.parentKey), op)
               ELSE NotModified(d, op)
          [] op.type \in CreateTypes ->
               IF op.id \in DOMAIN d.items THEN NotModified(d, op)
               ELSE AttachChild(d, id, op.id, op.parentKey, NewFromOp(op), op)
          [] op.type = "SetParentKey" ->
               IF n.parent = NoId THEN NotModified(d, op)
               ELSE IF d.items[n.parent].type = "List"
                    THEN Result(WithItems(d, ListSetChildKey(d.items, n.parent, op.parentKey, id)),
                                id, <<SetParentKeyOp(id, n.parentKey)>>, op)
                    ELSE NotModified(d, op)
          [] OTHER -> NotModified(d, op)

\* the value an UpdateObject's reverse restores: the old value itself, which
\* for a node is the instance (detached once the update is applied)
OldValueInOp(items, v, pid, key) ==
    IF v.tag = "n" THEN Detached(Serialize(items, v.id, pid, key)) ELSE v

\* the second loop of #applyUpdate without the conflict branch: a remote value
\* overwrites a key whose local update is pending under another opId
RECURSIVE ApplyUpdateKeysLastWriter(_, _, _, _, _, _, _)
ApplyUpdateKeysLastWriter(items, id, data, i, opId, isLocal, isModified) ==
    IF i > Len(data) THEN [items |-> items, isModified |-> isModified]
    ELSE
      LET key == data[i].k
          n == items[id]
          pending == IF key \in DOMAIN n.pend THEN n.pend[key] ELSE NoId
          acked == ~isLocal /\ pending # NoId /\ pending = opId
          pend1 == IF isLocal THEN [k \in DOMAIN n.pend \cup {key} |->
                                       IF k = key THEN opId ELSE n.pend[k]]
                   ELSE IF acked THEN Restrict(n.pend, DOMAIN n.pend \ {key})
                   ELSE n.pend
          items1 == [items EXCEPT ![id].pend = pend1]
          items2 == DetachValue(items1, MapGet(n.map, key))
          items3 == [items2 EXCEPT ![id].map = MapSet(n.map, key, data[i].v)]
      IN  IF acked
          THEN ApplyUpdateKeysLastWriter(items1, id, data, i + 1, opId, isLocal, isModified)
          ELSE ApplyUpdateKeysLastWriter(items3, id, data, i + 1, opId, isLocal, TRUE)

\* the second loop of LiveObject.#applyUpdate, from the i-th key of op.data on:
\* [items, isModified]
RECURSIVE ApplyUpdateKeys(_, _, _, _, _, _, _)
ApplyUpdateKeys(items, id, data, i, opId, isLocal, isModified) ==
    IF i > Len(data) THEN [items |-> items, isModified |-> isModified]
    ELSE
      LET key == data[i].k
          n == items[id]
          pending == IF key \in DOMAIN n.pend THEN n.pend[key] ELSE NoId
          acked == ~isLocal /\ pending # NoId /\ pending = opId
          conflict == ~isLocal /\ pending # NoId /\ pending # opId
          pend1 == IF isLocal THEN [k \in DOMAIN n.pend \cup {key} |->
                                       IF k = key THEN opId ELSE n.pend[k]]
                   ELSE IF acked THEN Restrict(n.pend, DOMAIN n.pend \ {key})
                   ELSE n.pend
          oldValue == MapGet(n.map, key)
          items1 == [items EXCEPT ![id].pend = pend1]
          items2 == DetachValue(items1, oldValue)
          items3 == [items2 EXCEPT ![id].map = MapSet(n.map, key, data[i].v)]
      IN  IF acked \/ conflict
          THEN ApplyUpdateKeys(items1, id, data, i + 1, opId, isLocal, isModified)
          ELSE ApplyUpdateKeys(items3, id, data, i + 1, opId, isLocal, TRUE)

\* #applyUpdate that ignores a remote op whenever any key of the object has a
\* local update pending, whatever keys the op writes
ApplyUpdateObjectWide(d, id, op) ==
    LET n == d.items[id]
        present == SelectSeq(op.data.map, LAMBDA e : MapGet(n.map, e.k) # Undef)
        absent == SelectSeq(op.data.map, LAMBDA e : MapGet(n.map, e.k) = Undef)
        reverse == <<UpdateObjectOp(id,
                        [i \in 1..Len(present) |->
                            E(present[i].k,
                              OldValueInOp(d.items, MapGet(n.map, present[i].k), id, present[i].k))],
                        NoId)>>
                   \o [i \in 1..Len(absent) |-> DeleteObjectKeyOp(id, absent[i].k)]
        isLocal == op.opId = NoId
        op1 == IF isLocal THEN [op EXCEPT !.opId = generateOpId(d)] ELSE op
        d1 == IF isLocal THEN [d EXCEPT !.opClock = @ + 1] ELSE d
        r == ApplyUpdateKeys(d1.items, id, op.data.map, 1, op1.opId, isLocal, FALSE)
    IN  IF ~isLocal /\ DOMAIN n.pend # {} THEN NotModified(d, op)
        ELSE IF r.isModified THEN Result(WithItems(d1, r.items), id, reverse, op1)
             ELSE NotModified(WithItems(d1, r.items), op1)

\* LiveObject.#applyUpdate(op)
ApplyUpdate(d, id, op) ==
    LET n == d.items[id]
        present == SelectSeq(op.data.map, LAMBDA e : MapGet(n.map, e.k) # Undef)
        absent == SelectSeq(op.data.map, LAMBDA e : MapGet(n.map, e.k) = Undef)
        reverseUpdate ==
            UpdateObjectOp(id,
                [i \in 1..Len(present) |->
                    E(present[i].k, OldValueInOp(d.items, MapGet(n.map, present[i].k), id, present[i].k))],
                NoId)
        reverse == <<reverseUpdate>>
                   \o [i \in 1..Len(absent) |-> DeleteObjectKeyOp(id, absent[i].k)]
        isLocal == op.opId = NoId
        op1 == IF isLocal THEN [op EXCEPT !.opId = generateOpId(d)] ELSE op
        d1 == IF isLocal THEN [d EXCEPT !.opClock = @ + 1] ELSE d
        r == ApplyUpdateKeys(d1.items, id, op.data.map, 1, op1.opId, isLocal, FALSE)
    IN  IF r.isModified THEN Result(WithItems(d1, r.items), id, reverse, op1)
        ELSE NotModified(WithItems(d1, r.items), op1)

\* LiveObject.#applyDeleteObjectKey(op)
ApplyDeleteObjectKey(d, id, op) ==
    LET n == d.items[id]
        oldValue == MapGet(n.map, op.key)
        reverse == IF isCrdt(oldValue) THEN SerializeValue(d.items, oldValue, id, op.key)
                   ELSE IF oldValue # Undef
                        THEN <<UpdateObjectOp(id, <<E(op.key, oldValue)>>, NoId)>>
                        ELSE <<>>
        items1 == DetachValue(d.items, oldValue)
    IN  Result(WithItems(d, [items1 EXCEPT ![id].map = MapDelete(n.map, op.key)]),
               id, reverse, op)

\* _apply whose UpdateObject always reports the object as modified, also when
\* every key of the op was an acknowledgement
NodeApplyAckModifies(d, id, op) ==
    IF d.items[id].type = "Object" /\ op.type = "UpdateObject"
    THEN [ApplyUpdate(d, id, op) EXCEPT !.modified = id]
    ELSE IF d.items[id].type = "Object" /\ op.type = "DeleteObjectKey"
         THEN ApplyDeleteObjectKey(d, id, op)
         ELSE AbstractApply(d, id, op)

\* item._apply(op): LiveObject overrides UpdateObject and DeleteObjectKey
NodeApply(d, id, op) ==
    IF d.items[id].type = "Object" /\ op.type = "UpdateObject" THEN ApplyUpdate(d, id, op)
    ELSE IF d.items[id].type = "Object" /\ op.type = "DeleteObjectKey"
         THEN ApplyDeleteObjectKey(d, id, op)
         ELSE AbstractApply(d, id, op)

\* Doc.#applyOp(op)
ApplyOp(d, op) ==
    LET target == IF op.type \in CreateTypes THEN op.parentId ELSE op.id
    IN  IF target \notin DOMAIN d.items THEN NotModified(d, op)
        ELSE NodeApply(d, target, op)

\* Doc.#apply(ops): [d, results, ops, err]; an op that throws ends the loop
RECURSIVE ApplyFrom(_, _, _, _)
ApplyFrom(d, ops, i, results) ==
    IF i > Len(ops) THEN [d |-> d, results |-> results, ops |-> ops, err |-> FALSE]
    ELSE LET r == ApplyOp(d, ops[i])
         IN  IF r.err THEN [d |-> r.d, results |-> results, ops |-> ops, err |-> TRUE]
             ELSE ApplyFrom(r.d, [ops EXCEPT ![i] = r.op], i + 1,
                            Append(results, [modified |-> r.modified, reverse |-> r.reverse]))

Apply(d, ops) == ApplyFrom(d, ops, 1, <<>>)

\* the reverse ops of the results that modified something, in order
ReverseOf(results) ==
    SeqConcat([i \in 1..Len(results) |->
        IF results[i].modified # NoId THEN results[i].reverse ELSE <<>>])

\* an array that keeps every occurrence
KeepingAll(s) == s

\* a Set's insertion order: the elements of s, first occurrences only
RECURSIVE Unique(_)
Unique(s) ==
    IF s = <<>> THEN <<>>
    ELSE LET u == Unique(Front(s))
         IN  IF Last(s) \in Range(u) THEN u ELSE Append(u, Last(s))

\* the modified nodes of the results, as the Set the callers build
ModifiedOf(results) ==
    Unique(SelectSeq([i \in 1..Len(results) |-> results[i].modified], LAMBDA m : m # NoId))

(***************************************************************************)
(* Nodes built by the caller and not yet attached (new LiveObject({...}),  *)
(* new LiveMap([...]), new LiveList([...])) are templates:                 *)
(* [type, map, elems], map holding S(v) or Tpl(t) values, elems the        *)
(* constructor's item array.                                               *)
(***************************************************************************)
TObject(map) == [type |-> "Object", map |-> map, elems |-> <<>>, data |-> NoData]
TMap(map) == [type |-> "Map", map |-> map, elems |-> <<>>, data |-> NoData]
TList(elems) == [type |-> "List", map |-> <<>>, elems |-> elems, data |-> NoData]
TRegister(v) == [type |-> "Register", map |-> <<>>, elems |-> <<>>, data |-> v]

\* selfOrRegister(obj)
selfOrRegister(v) == IF v.tag = "t" THEN v.tpl ELSE TRegister(v)

(***************************************************************************)
(* _attach(id, doc) of a template whose parent link is (parent, parentKey):*)
(* the node enters the index under id, then its children are attached in   *)
(* order, each with a freshly generated id.  The LiveObject and LiveMap    *)
(* constructors set their children's parent link; the LiveList constructor *)
(* mints the positions and sets no parent link.                            *)
(***************************************************************************)
RECURSIVE Attach(_, _, _, _, _)
RECURSIVE AttachMapKids(_, _, _, _)
RECURSIVE AttachListKids(_, _, _, _, _)

AttachMapKids(d, id, kids, i) ==
    IF i > Len(kids) THEN d
    ELSE IF kids[i].v.tag = "s" /\ d.items[id].type = "Object"
         THEN AttachMapKids(d, id, kids, i + 1)
         ELSE LET cid == generateId(d)
                  d1 == Attach([d EXCEPT !.clock = @ + 1], selfOrRegister(kids[i].v),
                               cid, id, kids[i].k)
              IN  AttachMapKids(
                      [d1 EXCEPT !.items[id].map = MapSet(@, kids[i].k, NodeRef(cid))],
                      id, kids, i + 1)

AttachListKids(d, id, elems, i, position) ==
    IF i > Len(elems) THEN d
    ELSE LET newPosition == makePosition(position, NoKey)
             cid == generateId(d)
             d1 == Attach([d EXCEPT !.clock = @ + 1], selfOrRegister(elems[i]),
                          cid, NoId, NoKey)
         IN  AttachListKids(
                 [d1 EXCEPT !.items[id].items = Append(@, Item(cid, newPosition))],
                 id, elems, i + 1, newPosition)

Attach(d, t, id, parent, parentKey) ==
    LET \* an Object's dictionary keeps the constructor's entries, in their order
        node0 == Node(t.type, parent, parentKey,
                      IF t.type = "Object" THEN t.map ELSE <<>>, <<>>, t.data)
        d0 == WithItems(d, [x \in DOMAIN d.items \cup {id} |->
                               IF x = id THEN node0 ELSE d.items[x]])
    IN  IF t.type = "List" THEN AttachListKids(d0, id, t.elems, 1, NoKey)
        ELSE AttachMapKids(d0, id, t.map, 1)

(***************************************************************************)
(* Doc: events the document emits during one call                          *)
(***************************************************************************)
Broadcast(ops) == [e |-> "broadcast", ops |-> ops]
Notified(i, nodes) == [e |-> "notify", sub |-> i, nodes |-> nodes]

\* #notify that calls the subscribers with an empty list too
NotifyAlways(d, modified) == [i \in 1..Len(d.subscribers) |-> Notified(i, modified)]

\* the error of a call that a subscriber's exception ended
SubscriberThrew == "subscriber threw"

\* the first subscriber whose callback throws, 0 when none does
FirstThrowing(d) == FindIndex(d.subscribers, LAMBDA sub : sub.kind = "throwing")

\* Doc.#notify(modified): every subscriber in registration order, none when
\* nothing was modified; a callback that throws ends the loop
Notify(d, modified) ==
    IF modified = <<>> THEN <<>>
    ELSE [i \in 1..(IF FirstThrowing(d) = 0 THEN Len(d.subscribers) ELSE FirstThrowing(d)) |->
             Notified(i, modified)]

\* #notify(modified) throws
NotifyThrows(d, modified) == modified # <<>> /\ FirstThrowing(d) # 0

\* the error a call ends with when #notify(modified) is its last step
NotifyError(d, modified) == IF NotifyThrows(d, modified) THEN SubscriberThrew ELSE ""

\* #addToUndoStack that never discards the oldest entry
AddToUndoStackUnbounded(undoStack, ops) == Append(undoStack, ops)

\* #addToUndoStack that discards the newest entry of a full stack
AddToUndoStackDroppingNewest(undoStack, ops) ==
    Append(IF Len(undoStack) >= MAX_UNDO_STACK THEN Front(undoStack) ELSE undoStack, ops)

\* Doc.#addToUndoStack(ops)
AddToUndoStack(undoStack, ops) ==
    Append(IF Len(undoStack) >= MAX_UNDO_STACK THEN Tail(undoStack) ELSE undoStack, ops)

\* the outcome of a call: the document, the events emitted, the error thrown
Outcome(d, events, err) == [d |-> d, out |-> events, err |-> err]

\* dispatch that keeps the redo stack
DispatchKeepingRedo(d, ops, reverse, modified) ==
    IF d.isBatching
    THEN Outcome([d EXCEPT !.toBatch = [ops |-> @.ops \o ops,
                                        modified |-> Unique(@.modified \o modified),
                                        reverseOps |-> @.reverseOps \o reverse]],
                 <<>>, "")
    ELSE Outcome([d EXCEPT !.undoStack = AddToUndoStack(@, reverse)],
                 <<Broadcast(ops)>> \o Notify(d, modified), "")

\* dispatch that, in a batch, puts the reverse ops of a call in front of
\* those of the calls before it
DispatchReverseInFront(d, ops, reverse, modified) ==
    IF d.isBatching
    THEN Outcome([d EXCEPT !.toBatch = [ops |-> @.ops \o ops,
                                        modified |-> Unique(@.modified \o modified),
                                        reverseOps |-> reverse \o @.reverseOps]],
                 <<>>, "")
    ELSE Outcome([d EXCEPT !.undoStack = AddToUndoStack(@, reverse), !.redoStack = <<>>],
                 <<Broadcast(ops)>> \o Notify(d, modified), NotifyError(d, modified))

\* Doc.dispatch(ops, reverse, modified)
Dispatch(d, ops, reverse, modified) ==
    IF d.isBatching
    THEN Outcome([d EXCEPT !.toBatch = [ops |-> @.ops \o ops,
                                        modified |-> Unique(@.modified \o modified),
                                        reverseOps |-> @.reverseOps \o reverse]],
                 <<>>, "")
    ELSE Outcome([d EXCEPT !.undoStack = AddToUndoStack(@, reverse), !.redoStack = <<>>],
                 <<Broadcast(ops)>> \o Notify(d, modified), NotifyError(d, modified))

EmptyBatch == [ops |-> <<>>, modified |-> <<>>, reverseOps |-> <<>>]

\* new Doc(root, actor, broadcast)
NewDoc(actor) ==
    [actor |-> actor, clock |-> 0, opClock |-> 0, items |-> <<>>, root |-> NoId,
     undoStack |-> <<>>, redoStack |-> <<>>, isBatching |-> FALSE, toBatch |-> EmptyBatch,
     subscribers |-> <<>>]

\* Doc.from that dispatches the deletion of the root as the reverse
DocFromUndoable(root, actor) ==
    LET storage == NewDoc(actor)
        id == generateId(storage)
        d1 == Attach([storage EXCEPT !.clock = @ + 1, !.root = id], TObject(root),
                     id, NoId, NoKey)
    IN  Dispatch(d1, Serialize(d1.items, id, NoId, NoKey), <<DeleteCrdtOp(id)>>, <<>>)

\* Doc.from(root, actor, dispatch)
DocFrom(root, actor) ==
    LET storage == NewDoc(actor)
        id == generateId(storage)
        d1 == Attach([storage EXCEPT !.clock = @ + 1, !.root = id], TObject(root),
                     id, NoId, NoKey)
    IN  Dispatch(d1, Serialize(d1.items, id, NoId, NoKey), <<>>, <<>>)

(***************************************************************************)
(* Local mutators, on an attached node `id`                                *)
(***************************************************************************)
\* the loop of LiveObject.update over the keys of `overrides`, from the i-th
\* on; acc = [d, ops, reverseOps, reverseData, updatedProps]
RECURSIVE UpdateKeys(_, _, _, _, _)
UpdateKeys(acc, id, overrides, i, opId) ==
    IF i > Len(overrides) THEN acc
    ELSE
      LET key == overrides[i].k
          newValue == overrides[i].v
          d == acc.d
          n == d.items[id]
          oldValue == MapGet(n.map, key)
          pend1 == [k \in DOMAIN n.pend \cup {key} |-> IF k = key THEN opId ELSE n.pend[k]]
          items1 == DetachValue([d.items EXCEPT ![id].pend = pend1], oldValue)
          d1 == WithItems(d, items1)
          cid == generateId(d1)
          d2 == IF newValue.tag = "t"
                THEN Attach([d1 EXCEPT !.clock = @ + 1], newValue.tpl, cid, id, key)
                ELSE d1
          stored == IF newValue.tag = "t" THEN NodeRef(cid) ELSE newValue
          d3 == [d2 EXCEPT !.items[id].map = MapSet(@, key, stored)]
      IN  UpdateKeys(
            [d |-> d3,
             ops |-> IF newValue.tag = "t"
                     THEN acc.ops \o Serialize(d2.items, cid, id, key) ELSE acc.ops,
             reverseOps |-> IF isCrdt(oldValue)
                            THEN acc.reverseOps \o SerializeValue(d.items, oldValue, id, key)
                            ELSE IF oldValue = Undef
                                 THEN Append(acc.reverseOps, DeleteObjectKeyOp(id, key))
                                 ELSE acc.reverseOps,
             reverseData |-> IF ~isCrdt(oldValue) /\ oldValue # Undef
                             THEN MapSet(acc.reverseData, key, oldValue) ELSE acc.reverseData,
             updatedProps |-> IF newValue.tag = "t" THEN acc.updatedProps
                              ELSE MapSet(acc.updatedProps, key, newValue)],
            id, overrides, i + 1, opId)

\* LiveObject.update(overrides); set(key, value) is update({[key]: value})
ObjectUpdate(d, id, overrides) ==
    LET opId == generateOpId(d)
        acc == UpdateKeys([d |-> [d EXCEPT !.opClock = @ + 1], ops |-> <<>>,
                           reverseOps |-> <<>>, reverseData |-> <<>>, updatedProps |-> <<>>],
                          id, overrides, 1, opId)
        ops == IF acc.updatedProps # <<>>
               THEN <<UpdateObjectOp(id, acc.updatedProps, opId)>> \o acc.ops
               ELSE acc.ops
    IN  Dispatch(acc.d, ops, <<UpdateObjectOp(id, acc.reverseData, NoId)>> \o acc.reverseOps,
                 <<id>>)

\* LiveMap.set whose reverse forgets the prior child
LiveMapSetForgetting(d, id, key, value) ==
    LET n == d.items[id]
        oldValue == MapGet(n.map, key)
        items1 == DetachValue(d.items, oldValue)
        cid == generateId(d)
        d1 == Attach([d EXCEPT !.clock = @ + 1,
                               !.items = [items1 EXCEPT ![id].map = MapSet(n.map, key, NodeRef(cid))]],
                     selfOrRegister(value), cid, id, key)
    IN  Dispatch(d1, Serialize(d1.items, cid, id, key), <<DeleteCrdtOp(cid)>>, <<id>>)

\* LiveMap.set(key, value)
LiveMapSet(d, id, key, value) ==
    LET n == d.items[id]
        oldValue == MapGet(n.map, key)
        items1 == DetachValue(d.items, oldValue)
        cid == generateId(d)
        d1 == Attach([d EXCEPT !.clock = @ + 1,
                               !.items = [items1 EXCEPT ![id].map = MapSet(n.map, key, NodeRef(cid))]],
                     selfOrRegister(value), cid, id, key)
    IN  Dispatch(d1, Serialize(d1.items, cid, id, key),
                 IF oldValue # Undef THEN SerializeValue(d.items, oldValue, id, key)
                 ELSE <<DeleteCrdtOp(cid)>>,
                 <<id>>)

\* delete whose reverse re-creates the entry without its children
LiveMapDeleteShallow(d, id, key) ==
    LET n == d.items[id]
        item == MapGet(n.map, key)
        items1 == DetachValue(d.items, item)
    IN  IF item = Undef THEN Outcome(d, <<>>, "")
        ELSE Dispatch(WithItems(d, [items1 EXCEPT ![id].map = MapDelete(n.map, key)]),
                      <<DeleteCrdtOp(item.id)>>,
                      <<Head(SerializeValue(d.items, item, id, key))>>, <<id>>)

\* LiveMap.delete(key): false, and nothing dispatched, when the key is absent
LiveMapDelete(d, id, key) ==
    LET n == d.items[id]
        item == MapGet(n.map, key)
        items1 == DetachValue(d.items, item)
    IN  IF item = Undef THEN Outcome(d, <<>>, "")
        ELSE Dispatch(WithItems(d, [items1 EXCEPT ![id].map = MapDelete(n.map, key)]),
                      <<DeleteCrdtOp(item.id)>>, SerializeValue(d.items, item, id, key), <<id>>)

PosAt(its, i) == IF 1 <= i /\ i <= Len(its) THEN its[i].pos ELSE NoKey

\* insert without the check of the index
LiveListInsertUnchecked(d, id, element, index) ==
    LET n == d.items[id]
        position == makePosition(PosAt(n.items, index), PosAt(n.items, index + 1))
        cid == generateId(d)
        its == SortItems(Append(n.items, Item(cid, position)))
        d1 == Attach([d EXCEPT !.clock = @ + 1, !.items[id].items = its],
                     selfOrRegister(element), cid, id, position)
    IN  Dispatch(d1, Serialize(d1.items, cid, id, position), <<DeleteCrdtOp(cid)>>, <<id>>)

\* insert that mints the position behind the last element, whatever the index
LiveListInsertLast(d, id, element, index) ==
    LET n == d.items[id]
        position == makePosition(PosAt(n.items, Len(n.items)), NoKey)
        cid == generateId(d)
        its == SortItems(Append(n.items, Item(cid, position)))
        d1 == Attach([d EXCEPT !.clock = @ + 1, !.items[id].items = its],
                     selfOrRegister(element), cid, id, position)
    IN  IF index < 0 \/ index > Len(n.items) THEN Outcome(d, <<>>, "index out of range")
        ELSE Dispatch(d1, Serialize(d1.items, cid, id, position), <<DeleteCrdtOp(cid)>>, <<id>>)

\* LiveList.insert(element, index), index counted from 0; push(element) is
\* insert(element, length)
LiveListInsert(d, id, element, index) ==
    LET n == d.items[id]
        position == makePosition(PosAt(n.items, index), PosAt(n.items, index + 1))
        cid == generateId(d)
        its == SortItems(Append(n.items, Item(cid, position)))
        d1 == Attach([d EXCEPT !.clock = @ + 1, !.items[id].items = its],
                     selfOrRegister(element), cid, id, position)
    IN  IF index < 0 \/ index > Len(n.items) THEN Outcome(d, <<>>, "index out of range")
        ELSE Dispatch(d1, Serialize(d1.items, cid, id, position), <<DeleteCrdtOp(cid)>>, <<id>>)

\* LiveList.move(index, targetIndex), indices counted from 0
LiveListMove(d, id, index, targetIndex) ==
    LET n == d.items[id]
        its == n.items
        afterPosition == IF index < targetIndex
                         THEN (IF targetIndex = Len(its) - 1 THEN NoKey
                               ELSE its[targetIndex + 2].pos)
                         ELSE its[targetIndex + 1].pos
        beforePosition == IF index < targetIndex THEN its[targetIndex + 1].pos
                          ELSE (IF targetIndex = 0 THEN NoKey ELSE its[targetIndex].pos)
        position == makePosition(beforePosition, afterPosition)
        item == its[index + 1]
        moved == SortItems([its EXCEPT ![index + 1] = Item(item.id, position)])
        items1 == [d.items EXCEPT ![id].items = moved,
                                  ![item.id] = [@ EXCEPT !.parent = id, !.parentKey = position]]
    IN  IF targetIndex < 0 \/ targetIndex >= Len(its) \/ index < 0 \/ index >= Len(its)
        THEN Outcome(d, <<>>, "index out of range")
        ELSE Dispatch(WithItems(d, items1), <<SetParentKeyOp(item.id, position)>>,
                      <<SetParentKeyOp(item.id, item.pos)>>, <<id>>)

\* LiveList.delete(index), index counted from 0
LiveListDelete(d, id, index) ==
    LET n == d.items[id]
        item == n.items[index + 1]
        items1 == Detach(d.items, item.id)
    IN  IF index < 0 \/ index >= Len(n.items) THEN Outcome(d, <<>>, "index out of range")
        ELSE Dispatch(WithItems(d, [items1 EXCEPT ![id].items = RemoveAt(n.items, index + 1)]),
                      <<DeleteCrdtOp(item.id)>>, Serialize(d.items, item.id, id, item.pos),
                      <<id>>)

(***************************************************************************)
(* Local mutators called with a node that is already attached: the         *)
(* instance `nid` of the id index.  _setParentLink throws when the node    *)
(* has another parent, and _attach throws in every case, the node having   *)
(* an id; what the call wrote before the throw stays written.  A value a   *)
(* container still holds after its _detach() is the detached instance.     *)
(***************************************************************************)
\* the map of the container id once the value it holds under key is detached
DetachHeld(items, id, key) ==
    LET oldValue == MapGet(items[id].map, key)
        items1 == DetachValue(items, oldValue)
    IN  IF oldValue.tag = "n"
        THEN [items1 EXCEPT ![id].map = MapSet(@, key, OldValueInOp(items, oldValue, id, key))]
        ELSE items1

\* node._setParentLink(parent, key) throws: the node has another parent
HasOtherParent(items, nid, id) ==
    nid \in DOMAIN items /\ items[nid].parent # NoId /\ items[nid].parent # id

\* node._setParentLink(parent, key) on an instance that may have left the index
SetParentLink(items, nid, id, key) ==
    IF nid \in DOMAIN items
    THEN [items EXCEPT ![nid].parent = id, ![nid].parentKey = key]
    ELSE items

\* LiveObject.update({[key]: node}) / set(key, node)
ObjectUpdateAttached(d, id, key, nid) ==
    LET n == d.items[id]
        opId == generateOpId(d)
        pend1 == [k \in DOMAIN n.pend \cup {key} |-> IF k = key THEN opId ELSE n.pend[k]]
        items1 == DetachHeld([d.items EXCEPT ![id].pend = pend1], id, key)
        d1 == [d EXCEPT !.opClock = @ + 1, !.items = items1]
    IN  IF HasOtherParent(items1, nid, id)
        THEN Outcome(d1, <<>>, "Cannot attach parent if it already exist")
        ELSE Outcome([d1 EXCEPT !.items = SetParentLink(items1, nid, id, key), !.clock = @ + 1],
                     <<>>, "Cannot attach if CRDT is already attached")

\* LiveMap.set(key, node)
LiveMapSetAttached(d, id, key, nid) ==
    LET items1 == DetachHeld(d.items, id, key)
        item == IF nid \in DOMAIN items1 THEN NodeRef(nid)
                ELSE OldValueInOp(d.items, NodeRef(nid), id, key)
        items2 == [SetParentLink(items1, nid, id, key) EXCEPT ![id].map = MapSet(@, key, item)]
    IN  IF HasOtherParent(items1, nid, id)
        THEN Outcome(WithItems(d, items1), <<>>, "Cannot attach parent if it already exist")
        ELSE Outcome([d EXCEPT !.items = items2, !.clock = @ + 1],
                     <<>>, "Cannot attach if CRDT is already attached")

\* LiveList.insert(node, index)
LiveListInsertAttached(d, id, nid, index) ==
    LET n == d.items[id]
        position == makePosition(PosAt(n.items, index), PosAt(n.items, index + 1))
        its == SortItems(Append(n.items, Item(nid, position)))
        items1 == [SetParentLink(d.items, nid, id, position) EXCEPT ![id].items = its]
    IN  IF index < 0 \/ index > Len(n.items) THEN Outcome(d, <<>>, "index out of range")
        ELSE IF HasOtherParent(d.items, nid, id)
             THEN Outcome(d, <<>>, "Cannot attach parent if it already exist")
             ELSE Outcome([d EXCEPT !.items = items1, !.clock = @ + 1],
                          <<>>, "Cannot attach if CRDT is already attached")

(***************************************************************************)
(* Doc: batch, undo, redo, applyRemoteOperations, subscribe                *)
(***************************************************************************)
\* Doc.batch(fn), up to the call of fn
BatchEnter(d) ==
    IF d.isBatching THEN Outcome(d, <<>>, "batch should not be called during a batch")
    ELSE Outcome([d EXCEPT !.isBatching = TRUE], <<>>, "")

\* a finally block that leaves the batch buffer as it is
BatchExitKeepingBuffer(d) ==
    Outcome([d EXCEPT !.isBatching = FALSE,
                      !.undoStack = AddToUndoStack(@, d.toBatch.reverseOps),
                      !.redoStack = <<>>],
            <<Broadcast(d.toBatch.ops)>> \o Notify(d, d.toBatch.modified), "")

\* Doc.batch(fn), the finally block: it runs when fn returns and when fn
\* throws; the buffer is reset after #notify
BatchExit(d) ==
    Outcome([d EXCEPT !.isBatching = FALSE,
                      !.undoStack = AddToUndoStack(@, d.toBatch.reverseOps),
                      !.redoStack = <<>>,
                      !.toBatch = IF NotifyThrows(d, d.toBatch.modified) THEN @ ELSE EmptyBatch],
            <<Broadcast(d.toBatch.ops)>> \o Notify(d, d.toBatch.modified),
            NotifyError(d, d.toBatch.modified))

\* undo() that pushes and broadcasts only if an op had an effect
UndoneIfModified(a) ==
    IF a.err THEN Outcome(a.d, <<>>, "Method not implemented.")
    ELSE IF ModifiedOf(a.results) = <<>> THEN Outcome(a.d, <<>>, "")
    ELSE IF NotifyThrows(a.d, ModifiedOf(a.results))
         THEN Outcome(a.d, Notify(a.d, ModifiedOf(a.results)), SubscriberThrew)
         ELSE Outcome([a.d EXCEPT !.redoStack = Append(@, ReverseOf(a.results))],
                      Notify(a.d, ModifiedOf(a.results)) \o <<Broadcast(a.ops)>>, "")

\* Doc.undo() once the popped ops are applied, with a = the outcome of #apply:
\* the subscribers are notified, the reverse ops pushed onto the redo stack,
\* the ops broadcast
Undone(a) ==
    IF a.err THEN Outcome(a.d, <<>>, "Method not implemented.")
    ELSE IF NotifyThrows(a.d, ModifiedOf(a.results))
         THEN Outcome(a.d, Notify(a.d, ModifiedOf(a.results)), SubscriberThrew)
         ELSE Outcome([a.d EXCEPT !.redoStack = Append(@, ReverseOf(a.results))],
                      Notify(a.d, ModifiedOf(a.results)) \o <<Broadcast(a.ops)>>, "")

\* undo() without the check for an open batch
DocUndoInBatch(d) ==
    IF d.undoStack = <<>> THEN Outcome(d, <<>>, "")
    ELSE Undone(Apply([d EXCEPT !.undoStack = Front(@)], Last(d.undoStack)))

\* Doc.undo()
DocUndo(d) ==
    IF d.isBatching THEN Outcome(d, <<>>, "undo is not allowed during a batch")
    ELSE IF d.undoStack = <<>> THEN Outcome(d, <<>>, "")
    ELSE Undone(Apply([d EXCEPT !.undoStack = Front(@)], Last(d.undoStack)))

\* Doc.redo() once the popped ops are applied
Redone(a) ==
    IF a.err THEN Outcome(a.d, <<>>, "Method not implemented.")
    ELSE IF NotifyThrows(a.d, ModifiedOf(a.results))
         THEN Outcome(a.d, Notify(a.d, ModifiedOf(a.results)), SubscriberThrew)
         ELSE Outcome([a.d EXCEPT !.undoStack = Append(@, ReverseOf(a.results))],
                      Notify(a.d, ModifiedOf(a.results)) \o <<Broadcast(a.ops)>>, "")

\* Doc.redo()
DocRedo(d) ==
    IF d.isBatching THEN Outcome(d, <<>>, "redo is not allowed during a batch")
    ELSE IF d.redoStack = <<>> THEN Outcome(d, <<>>, "")
    ELSE Redone(Apply([d EXCEPT !.redoStack = Front(@)], Last(d.redoStack)))

\* Doc.applyRemoteOperations(ops) once the ops are applied
RemoteApplied(a) ==
    IF a.err THEN Outcome(a.d, <<>>, "Method not implemented.")
    ELSE Outcome(a.d, Notify(a.d, ModifiedOf(a.results)),
                 NotifyError(a.d, ModifiedOf(a.results)))

\* applyRemoteOperations that treats the ops as undo() treats the popped ops
ApplyRemoteOperationsRecorded(d, ops) == Undone(Apply(d, ops))

\* Doc.applyRemoteOperations(ops)
ApplyRemoteOperations(d, ops) == RemoteApplied(Apply(d, ops))

\* Doc.subscribe(callback)
DocSubscribe(d) ==
    Outcome([d EXCEPT !.subscribers = Append(@, [kind |-> "global"])], <<>>, "")

\* Doc.subscribe(node, callback): #crdtSubscribe registers a callback of its
\* own that calls `callback` for the nodes that are `node`
DocSubscribeNode(d, node) ==
    Outcome([d EXCEPT !.subscribers = Append(@, [kind |-> "node", node |-> node])], <<>>, "")

\* the disposer subscribe returned for the i-th subscriber
DocUnsubscribe(d, i) == Outcome([d EXCEPT !.subscribers = RemoveAt(@, i)], <<>>, "")

Called(i) == [e |-> "callback", sub |-> i]

\* the callback of #crdtSubscribe, called with nodes: the calls of the inner
\* callback.  Nodes are compared as instances: `replaced` holds the ids whose
\* subscribed instance has left the index, the id since being that of
\* another instance.
CrdtCallback(sub, i, nodes, replaced) ==
    IF sub.node \in replaced THEN <<>>
    ELSE [k \in 1..Len(SelectSeq(nodes, LAMBDA node : node = sub.node)) |-> Called(i)]

\* the events of a call, with the calls each #crdtSubscribe callback makes
WithCallbacks(d, events, replaced) ==
    SeqConcat([k \in 1..Len(events) |->
        IF events[k].e = "notify" /\ d.subscribers[events[k].sub].kind = "node"
        THEN <<events[k]>> \o CrdtCallback(d.subscribers[events[k].sub], events[k].sub,
                                            events[k].nodes, replaced)
        ELSE <<events[k]>>])

\* Doc.subscribe(callback) with a callback that throws
DocSubscribeThrowing(d) ==
    Outcome([d EXCEPT !.subscribers = Append(@, [kind |-> "throwing"])], <<>>, "")

(***************************************************************************)
(* Doc.load: the flat list of (id, serialized node) records, each          *)
(* [id, type, parentId, parentKey, data]                                   *)
(***************************************************************************)
\* the record the storage keeps for the node a creation op creates
ToRecord(op) ==
    [id |-> op.id,
     type |-> CASE op.type = "CreateObject" -> "Object"
                [] op.type = "CreateMap" -> "Map"
                [] op.type = "CreateList" -> "List"
                [] OTHER -> "Register",
     parentId |-> op.parentId, parentKey |-> op.parentKey,
     data |-> IF op.type \in {"CreateObject", "CreateRegister"} THEN op.data ELSE NoData]

ToRecords(ops) == [i \in 1..Len(ops) |-> ToRecord(ops[i])]

\* deserialize(entry, parentToChildren, doc) and the variants' _deserialize:
\* [d, err].  The node is attached under the record's id, then each child
\* record is deserialized, linked to the node and stored under its parentKey.
RECURSIVE Deserialize(_, _, _)
RECURSIVE DeserializeKids(_, _, _, _)

DeserializeKids(r, rec, children, i) ==
    IF r.err \/ i > Len(children) THEN r
    ELSE IF rec.type # "List" /\ children[i].parentKey = NoKey
         THEN [r EXCEPT !.err = TRUE]
         ELSE
           LET c == Deserialize(r.d, children[i], r.records)
               linked == [c.d.items EXCEPT ![children[i].id] =
                             [@ EXCEPT !.parent = rec.id, !.parentKey = children[i].parentKey]]
               stored == IF rec.type = "List"
                         THEN [linked EXCEPT ![rec.id].items =
                                 SortItems(Append(@, Item(children[i].id, children[i].parentKey)))]
                         ELSE [linked EXCEPT ![rec.id].map =
                                 MapSet(@, children[i].parentKey, NodeRef(children[i].id))]
           IN  IF c.err THEN [r EXCEPT !.err = TRUE, !.d = c.d]
               ELSE DeserializeKids([r EXCEPT !.d = WithItems(c.d, stored)], rec, children, i + 1)

Deserialize(d, rec, records) ==
    LET node == Node(rec.type, NoId, NoKey,
                     IF rec.type = "Object" THEN rec.data.map ELSE <<>>, <<>>,
                     IF rec.type = "Register" THEN rec.data ELSE NoData)
        d0 == WithItems(d, [x \in DOMAIN d.items \cup {rec.id} |->
                               IF x = rec.id THEN node ELSE d.items[x]])
        children == SelectSeq(records, LAMBDA c : c.parentId = rec.id)
    IN  IF rec.type = "Register" THEN [d |-> d0, records |-> records, err |-> FALSE]
        ELSE DeserializeKids([d |-> d0, records |-> records, err |-> FALSE], rec, children, 1)

\* Doc.load(items, actor, dispatch): the root is the last record without parentId
DocLoad(records, actor) ==
    LET parentless == SelectSeq(records, LAMBDA c : c.parentId = NoId)
        root == Last(parentless)
        r == Deserialize([NewDoc(actor) EXCEPT !.root = root.id], root, records)
    IN  IF records = <<>> THEN Outcome(NewDoc(actor), <<>>, "cannot load storage without items")
        ELSE IF parentless = <<>> THEN Outcome(NewDoc(actor), <<>>, "Root can't be null")
        ELSE IF root.type # "Object" \/ r.err
             THEN Outcome(NewDoc(actor), <<>>, "Tried to deserialize")
             ELSE Outcome(r.d, <<>>, "")

(***************************************************************************)
(* Structural views of the tree                                            *)
(***************************************************************************)
CanonOp(op) ==
    IF op.type = "CreateObject" THEN [op EXCEPT !.data = [tag |-> "f", fn |-> MapFn(@.map)]] ELSE op

\* the tree under the root: every node with its id, its container, its key
\* or position and its scalar data, whatever the dictionaries' insertion order
TreeView(d) == {CanonOp(op) : op \in Range(Serialize(d.items, d.root, NoId, NoKey))}

\* the same with a list child's position replaced by its index in the list
IndexOfChild(d, op) ==
    IF op.parentId \in DOMAIN d.items /\ d.items[op.parentId].type = "List"
    THEN <<FindIndex(d.items[op.parentId].items, LAMBDA e : e.id = op.id)>>
    ELSE op.parentKey

OrderView(d) ==
    {[CanonOp(op) EXCEPT !.parentKey = IndexOfChild(d, op)] :
        op \in Range(Serialize(d.items, d.root, NoId, NoKey))}

(***************************************************************************)
(* The inputs of the calls                                                 *)
(***************************************************************************)
Actor == 0
RemoteActor == Actor + 1
ThirdActor == Actor + 2

\* the keys "a" and "b".  A peer's op may give them to a list child as its
\* position, so they are positions of the alphabet above its lowest code
KeyA == <<PosMin + 1>>
KeyB == <<PosMin + 2>>
Keys == {KeyA, KeyB}

EmptyObject == Tpl(TObject(<<>>))
EmptyMap == Tpl(TMap(<<>>))
EmptyList == Tpl(TList(<<>>))
ListOfOne == Tpl(TList(<<S(1)>>))
ListOfTwo == Tpl(TList(<<S(1), S(2)>>))

RootEmpty == <<>>
RootContainers == <<E(KeyA, EmptyMap), E(KeyB, EmptyList)>>
RootList == <<E(KeyA, S(1)), E(KeyB, ListOfTwo)>>

\* the roots Doc.from is called with
InitRoots == {RootEmpty, RootContainers, RootList}

ObjectValues == {S(1), S(2), EmptyObject, ListOfOne}
MapValues == {S(1), ListOfOne}
ListValues == {S(1), EmptyObject}

\* the arguments of LiveObject.update: one key, or both keys
Overrides ==
    {<<E(KeyA, v)>> : v \in ObjectValues}
        \cup {<<E(KeyB, S(1))>>, <<E(KeyA, S(2)), E(KeyB, S(2))>>}

ScalarOverrides == {<<E(KeyA, S(1))>>, <<E(KeyA, S(2))>>}

NodesOf(d, type) == {id \in DOMAIN d.items : d.items[id].type = type}

RemoteId == <<RemoteActor, 0>>
RemoteValue == S(3)

PendingOpIds(d, o, k) ==
    IF k \in DOMAIN d.items[o].pend THEN {d.items[o].pend[k]} ELSE {}

\* the op lists a peer may send
RemoteOps(d) ==
    {<<UpdateObjectOp(d.root, <<E(k, RemoteValue)>>, opId)>> :
        k \in Keys, opId \in {RemoteId} \cup PendingOpIds(d, d.root, KeyA)}
    \cup {<<DeleteObjectKeyOp(d.root, k)>> : k \in Keys}
    \cup {<<DeleteCrdtOp(id)>> : id \in (DOMAIN d.items \ {d.root}) \cup {RemoteId}}
    \cup {<<SetParentKeyOp(id, KeyA)>> : id \in DOMAIN d.items \ {d.root}}
    \cup {<<CreateRegisterOp(RemoteId, pid, KeyA, RemoteValue)>> : pid \in DOMAIN d.items}
    \cup {<<CreateObjectOp(RemoteId, d.root, KeyA, <<E(KeyA, RemoteValue)>>)>>}
    \cup {<<CreateMapOp(RemoteId, d.root, KeyB)>>}
    \cup {<<CreateListOp(RemoteId, d.root, KeyB),
            CreateRegisterOp(<<RemoteActor, 1>>, RemoteId, KeyA, RemoteValue)>>}

(***************************************************************************)
(* The state machine.  doc is the Doc; out the events the last call        *)
(* emitted (broadcast and subscriber invocations, in order); last names    *)
(* the last call, the error it raised, the call before it and the number   *)
(* of calls made; pre is                                                   *)
(* the Doc before the last call, batchPre the Doc before the last batch()  *)
(* call; batchLog collects, per mutator call, what has been dispatched     *)
(* since the batch was opened, whether a call was refused in it and        *)
(* whether an earlier batch ended by a throw after dispatching.  peer is a second replica and net the ops   *)
(* still to be delivered to each replica; only the replication             *)
(* specifications use them.                                                *)
(***************************************************************************)
LastCall(call, err, batching) ==
    [call |-> call, err |-> err, batching |-> batching, n |-> last.n + 1, prev |-> last.call]

EmptyLog == [ops |-> <<>>, reverseOps |-> <<>>, dispatched |-> 0, refused |-> 0, thrown |-> 0]

Suffix(s, t) == SubSeq(t, Len(s) + 1, Len(t))

NoNet == [a |-> {}, b |-> {}]

\* the Doc as constructed, before Doc.from or Doc.load has filled it
Init ==
    /\ doc = NewDoc(Actor)
    /\ out = <<>>
    /\ last = [call |-> "new", err |-> "", batching |-> FALSE, n |-> 0, prev |-> "none"]
    /\ pre = NewDoc(Actor)
    /\ batchPre = NewDoc(Actor)
    /\ batchLog = EmptyLog
    /\ peer = NewDoc(RemoteActor)
    /\ net = NoNet

\* Doc.from(root) with one of the roots
FromOf(roots) ==
    /\ last.call = "new"
    /\ \E root \in roots :
        \E r \in {DocFrom(root, Actor)} :
            /\ doc' = r.d
            /\ out' = r.out
    /\ last' = [call |-> "from", err |-> "", batching |-> FALSE, n |-> 0, prev |-> "new"]
    /\ pre' = doc
    /\ UNCHANGED <<batchPre, batchLog, peer, net>>

\* a call of a local mutator with outcome r
Mutate(call, r, max) ==
    /\ last.call # "new"
    /\ last.n < max
    /\ doc' = r.d
    /\ out' = r.out
    /\ last' = LastCall(call, r.err, doc.isBatching)
    /\ pre' = doc
    /\ batchLog' = IF doc.isBatching
                   THEN [batchLog EXCEPT
                           !.ops = @ \o Suffix(doc.toBatch.ops, r.d.toBatch.ops),
                           !.reverseOps = @ \o Suffix(doc.toBatch.reverseOps, r.d.toBatch.reverseOps),
                           !.dispatched = IF r.d.toBatch # doc.toBatch THEN @ + 1 ELSE @]
                   ELSE batchLog
    /\ UNCHANGED <<batchPre, peer, net>>

\* a call of undo/redo/applyRemoteOperations with outcome r
DocCall(call, r, max) ==
    /\ last.call # "new"
    /\ last.n < max
    /\ doc' = r.d
    /\ out' = r.out
    /\ last' = LastCall(call, r.err, doc.isBatching)
    /\ pre' = doc
    /\ batchLog' = IF doc.isBatching THEN [batchLog EXCEPT !.refused = 1] ELSE batchLog
    /\ UNCHANGED <<batchPre, peer, net>>

UpdateOf(overrides, max) ==
    \E id \in NodesOf(doc, "Object"), o \in overrides :
        Mutate("update", ObjectUpdate(doc, id, o), max)

MapSetOf(values, max) ==
    \E id \in NodesOf(doc, "Map"), key \in Keys, value \in values :
        Mutate("map.set", LiveMapSet(doc, id, key, value), max)

MapDeleteOf(max) ==
    \E id \in NodesOf(doc, "Map"), key \in Keys :
        Mutate("map.delete", LiveMapDelete(doc, id, key), max)

ListInsertOf(values, max) ==
    \E id \in NodesOf(doc, "List"), value \in values :
        \E index \in 0..(Len(doc.items[id].items) + 1) :
            Mutate("list.insert", LiveListInsert(doc, id, value, index), max)

ListMoveOf(max) ==
    \E id \in NodesOf(doc, "List") :
        \E index, targetIndex \in 0..Len(doc.items[id].items) :
            Mutate("list.move", LiveListMove(doc, id, index, targetIndex), max)

ListDeleteOf(max) ==
    \E id \in NodesOf(doc, "List") :
        \E index \in 0..Len(doc.items[id].items) :
            Mutate("list.delete", LiveListDelete(doc, id, index), max)

\* batch(fn) is called: fn starts running, or (nested) the call throws
BatchBeginOf(max) ==
    /\ last.call # "new"
    /\ last.n < max
    /\ doc' = BatchEnter(doc).d
    /\ out' = <<>>
    /\ last' = LastCall("batch.begin", BatchEnter(doc).err, doc.isBatching)
    /\ pre' = doc
    /\ batchPre' = IF doc.isBatching THEN batchPre ELSE doc
    /\ batchLog' = IF doc.isBatching THEN [batchLog EXCEPT !.refused = 1]
                   ELSE [EmptyLog EXCEPT !.thrown = batchLog.thrown]
    /\ UNCHANGED <<peer, net>>

\* fn returns or throws: the finally block of batch commits
BatchEnd ==
    /\ doc.isBatching
    /\ \E threw \in BOOLEAN :
        /\ doc' = BatchExit(doc).d
        /\ out' = BatchExit(doc).out
        /\ last' = [call |-> "batch", err |-> IF threw THEN "fn threw" ELSE "",
                    batching |-> TRUE, n |-> last.n, prev |-> last.call]
        /\ pre' = doc
        /\ batchLog' = [batchLog EXCEPT
                          !.thrown = IF threw /\ doc.toBatch.ops # <<>> THEN 1 ELSE @]
        /\ UNCHANGED <<batchPre, peer, net>>

UndoOf(max) == DocCall("undo", DocUndo(doc), max)

RedoOf(max) == DocCall("redo", DocRedo(doc), max)

RemoteOf(max) ==
    /\ last.call # "new"
    /\ ~doc.isBatching
    /\ \E ops \in RemoteOps(doc) :
        DocCall("applyRemoteOperations", ApplyRemoteOperations(doc, ops), max)

\* subscribers register before the first call
Subscribe ==
    /\ last.call \in {"from", "subscribe"}
    /\ Len(doc.subscribers) < MaxSubs
    /\ doc' = DocSubscribe(doc).d
    /\ out' = <<>>
    /\ last' = [last EXCEPT !.call = "subscribe", !.prev = last.call]
    /\ pre' = doc
    /\ UNCHANGED <<batchPre, batchLog, peer, net>>

(***************************************************************************)
(* Spec: one replica, every local call                                     *)
(***************************************************************************)
Update == UpdateOf(Overrides, MaxCalls)
MapSetCall == MapSetOf(MapValues, MaxCalls)
MapDeleteCall == MapDeleteOf(MaxCalls)
ListInsert == ListInsertOf(ListValues, MaxCalls)
ListMove == ListMoveOf(MaxCalls)
ListDelete == ListDeleteOf(MaxCalls)
BatchBegin == BatchBeginOf(MaxCalls)
Undo == UndoOf(MaxCalls)
Redo == RedoOf(MaxCalls)
From == FromOf(InitRoots)

Next ==
    \/ From
    \/ Update
    \/ MapSetCall
    \/ MapDeleteCall
    \/ ListInsert
    \/ ListMove
    \/ ListDelete
    \/ BatchBegin
    \/ BatchEnd
    \/ Undo
    \/ Redo
    \/ Subscribe

Spec == Init /\ [][Next]_vars

(***************************************************************************)
(* SpecRemote: one replica receiving remote operations between local calls *)
(***************************************************************************)
RemoteUpdate == UpdateOf({<<E(KeyA, S(1))>>, <<E(KeyA, ListOfOne)>>}, MaxRemoteCalls)
RemoteListInsert == ListInsertOf({S(1)}, MaxRemoteCalls)
RemoteUndo == UndoOf(MaxRemoteCalls)
RemoteRedo == RedoOf(MaxRemoteCalls)
Remote == RemoteOf(MaxRemoteCalls)

NextRemote ==
    \/ From
    \/ RemoteUpdate
    \/ RemoteListInsert
    \/ RemoteUndo
    \/ RemoteRedo
    \/ Remote
    \/ Subscribe

SpecRemote == Init /\ [][NextRemote]_vars

(***************************************************************************)
(* SpecBatch: one replica, batches of scalar updates and list edits        *)
(***************************************************************************)
BatchUpdate == UpdateOf(ScalarOverrides, MaxBatchCalls)
BatchListInsert == ListInsertOf({S(1)}, MaxBatchCalls)
BatchListDelete == ListDeleteOf(MaxBatchCalls)
BatchBatchBegin == BatchBeginOf(MaxBatchCalls)
BatchUndo == UndoOf(MaxBatchCalls)
BatchRedo == RedoOf(MaxBatchCalls)

BatchFrom == FromOf({RootEmpty, <<E(KeyA, S(1)), E(KeyB, EmptyList)>>})

NextBatch ==
    \/ BatchFrom
    \/ BatchUpdate
    \/ BatchListInsert
    \/ BatchListDelete
    \/ BatchBatchBegin
    \/ BatchEnd
    \/ BatchUndo
    \/ BatchRedo
    \/ Subscribe

SpecBatch == Init /\ [][NextBatch]_vars

(***************************************************************************)
(* SpecConv: two replicas loaded from the same records; the same ops are   *)
(* delivered to both through applyRemoteOperations, one op per call, in    *)
(* any order                                                               *)
(***************************************************************************)
ThirdId == <<ThirdActor, 9>>

\* the ops in flight: updates of one key by two peers, a key deletion, two
\* registers created at the first position of a list, a map created under
\* the root, deletions of nodes and a move of the first child of a list to
\* the position of the second
ConvOps(d) ==
    {UpdateObjectOp(d.root, <<E(KeyA, S(3))>>, <<RemoteActor, 9>>),
     UpdateObjectOp(d.root, <<E(KeyA, S(4))>>, ThirdId),
     DeleteObjectKeyOp(d.root, KeyA),
     CreateMapOp(<<RemoteActor, 8>>, d.root, KeyA)}
    \cup {CreateRegisterOp(<<RemoteActor, 9>>, l, makePosition(NoKey, NoKey), S(3)) : l \in NodesOf(d, "List")}
    \cup {CreateRegisterOp(ThirdId, l, makePosition(NoKey, NoKey), S(4)) : l \in NodesOf(d, "List")}
    \cup {DeleteCrdtOp(id) : id \in DOMAIN d.items \ {d.root}}
    \cup {SetParentKeyOp(d.items[l].items[1].id, d.items[l].items[2].pos) :
             l \in {x \in NodesOf(d, "List") : Len(d.items[x].items) >= 2}}

ConvOpSets(d) == {ops \in SUBSET ConvOps(d) : 1 <= Cardinality(ops) /\ Cardinality(ops) <= MaxConvOps}

\* the records both replicas are loaded from
ConvRecords(root) ==
    LET r == DocFrom(root, ThirdActor)
    IN  ToRecords(Serialize(r.d.items, r.d.root, NoId, NoKey))

\* both replicas are loaded, and the ops to deliver are chosen
Load ==
    /\ last.call = "new"
    /\ \E root \in {RootContainers, RootList} :
        \E records \in {ConvRecords(root)} :
            \E loaded \in {[actor \in {Actor, RemoteActor} |-> DocLoad(records, actor).d]} :
                /\ doc' = loaded[Actor]
                /\ peer' = loaded[RemoteActor]
                /\ \E ops \in ConvOpSets(loaded[Actor]) : net' = [a |-> ops, b |-> ops]
    /\ out' = <<>>
    /\ last' = [call |-> "load", err |-> "", batching |-> FALSE, n |-> 0, prev |-> "new"]
    /\ pre' = doc
    /\ UNCHANGED <<batchPre, batchLog>>

\* the first replica receives one of the ops in flight
DeliverA ==
    \E op \in net.a :
        \E r \in {ApplyRemoteOperations(doc, <<op>>)} :
            /\ doc' = r.d
            /\ out' = r.out
            /\ last' = LastCall("applyRemoteOperations", r.err, doc.isBatching)
            /\ pre' = doc
            /\ net' = [net EXCEPT !.a = @ \ {op}]
            /\ UNCHANGED <<peer, batchPre, batchLog>>

\* the second replica receives one of the ops in flight
DeliverB ==
    \E op \in net.b :
        \E r \in {ApplyRemoteOperations(peer, <<op>>)} :
            /\ peer' = r.d
            /\ net' = [net EXCEPT !.b = @ \ {op}]
            /\ UNCHANGED <<doc, out, last, pre, batchPre, batchLog>>

NextConv ==
    \/ Load
    \/ DeliverA
    \/ DeliverB

SpecConv == Init /\ [][NextConv]_vars

(***************************************************************************)
(* Observations of a step                                                  *)
(***************************************************************************)
MutatorCalls == {"update", "map.set", "map.delete", "list.insert", "list.move", "list.delete"}

Broadcasts(events) == SelectSeq(events, LAMBDA ev : ev.e = "broadcast")
Notifications(events) == SelectSeq(events, LAMBDA ev : ev.e = "notify")
NotificationsOf(events, i) == SelectSeq(events, LAMBDA ev : ev.e = "notify" /\ ev.sub = i)

\* an op list with the op ids forgotten (applying an UpdateObject that has no
\* opId writes a fresh one into the op)
WithoutOpIds(ops) ==
    [i \in 1..Len(ops) |->
        IF ops[i].type = "UpdateObject" THEN [ops[i] EXCEPT !.opId = NoId] ELSE ops[i]]

\* the last call was a successful local mutator call outside a batch
AfterMutator == last.call \in MutatorCalls /\ ~last.batching /\ last.err = ""

\* this step is a call of the named method
Calls(call) == last'.call = call /\ last'.n = last.n + 1

\* LiveMap.delete was called with a key the map does not hold
DeletedAbsentKey == last.call = "map.delete" /\ TreeView(doc) = TreeView(pre)

\* the last call was a successful local mutator call outside a batch, other
\* than LiveMap.delete of an absent key
AfterDispatch == AfterMutator /\ ~DeletedAbsentKey

(***************************************************************************)
(* C2, as stated: a local mutator call outside a batch followed            *)
(* immediately by undo() leaves the tree structurally equal to the tree    *)
(* before the mutator call, and the broadcast callback has received the    *)
(* forward ops of the call and then the reverse ops of the call.           *)
(***************************************************************************)
UndoRevertsEveryMutator ==
    [][(AfterMutator /\ Calls("undo")) =>
          /\ TreeView(doc') = TreeView(pre)
          /\ Len(Broadcasts(out)) = 1
          /\ Len(Broadcasts(out')) = 1
          /\ Len(doc.undoStack) = Len(pre.undoStack) + 1
          /\ WithoutOpIds(Broadcasts(out')[1].ops) = WithoutOpIds(Last(doc.undoStack))]_vars

(***************************************************************************)
(* C2, amended: a local mutator call outside a batch that dispatches       *)
(* (every call but LiveMap.delete of an absent key), then undo():   *)
(* the tree is structurally equal to the tree before the mutator call, the *)
(* mutator call broadcast once, undo() broadcast once, and what undo()     *)
(* broadcast is the reverse list the mutator call pushed.                  *)
(***************************************************************************)
UndoRevertsMutator ==
    [][(AfterDispatch /\ Calls("undo")) =>
          /\ TreeView(doc') = TreeView(pre)
          /\ Len(Broadcasts(out)) = 1
          /\ Len(Broadcasts(out')) = 1
          /\ Len(doc.undoStack) = Len(pre.undoStack) + 1
          /\ WithoutOpIds(Broadcasts(out')[1].ops) = WithoutOpIds(Last(doc.undoStack))]_vars

\* undo() directly after a mutator call has brought a container back
UndoRevertsMutatorWitness ==
    /\ last.call = "undo" /\ last.err = "" /\ last.prev \in MutatorCalls
    /\ Len(Broadcasts(out)) = 1
    /\ \E op \in TreeView(doc) : op.type \in {"CreateMap", "CreateList"} /\ op \notin TreeView(pre)

(***************************************************************************)
(* C3: with a non-empty undo stack, undo() followed immediately by redo()  *)
(* leaves the tree structurally equal to the tree before the undo() and    *)
(* leaves on top of the undo stack the reverse list that was there before  *)
(* the undo().                                                             *)
(***************************************************************************)
RedoRevertsUndo ==
    [][(last.call = "undo" /\ last.err = "" /\ pre.undoStack # <<>> /\ Calls("redo")) =>
          /\ TreeView(doc') = TreeView(pre)
          /\ doc'.undoStack # <<>>
          /\ WithoutOpIds(Last(doc'.undoStack)) = WithoutOpIds(Last(pre.undoStack))]_vars

\* redo() directly after undo() has left a node instance in the reverse list
RedoLeavesInstanceInOp ==
    /\ last.call = "redo" /\ last.prev = "undo" /\ last.err = ""
    /\ doc.undoStack # <<>>
    /\ \E i \in 1..Len(Last(doc.undoStack)) :
          LET op == Last(doc.undoStack)[i]
          IN  op.type = "UpdateObject" /\ \E j \in 1..Len(op.data.map) : op.data.map[j].v.tag = "d"

(***************************************************************************)
(* SpecCap: one replica, long runs of empty batches, undo and redo, with   *)
(* mutator calls and remote operations once the undo stack is within       *)
(* MaxCapUpdates entries of MAX_UNDO_STACK                                 *)
(***************************************************************************)
NearCap == Len(doc.undoStack) >= MAX_UNDO_STACK - MaxCapUpdates

CapUpdate == NearCap /\ UpdateOf(ScalarOverrides, MaxCapCalls)
CapRemote == NearCap /\ RemoteOf(MaxCapCalls)
CapBatchBegin == BatchBeginOf(MaxCapCalls)
CapUndo == UndoOf(MaxCapCalls)
CapRedo == RedoOf(MaxCapCalls)

CapFrom == FromOf({RootEmpty})

NextCap ==
    \/ CapFrom
    \/ CapUpdate
    \/ CapRemote
    \/ CapBatchBegin
    \/ BatchEnd
    \/ CapUndo
    \/ CapRedo

SpecCap == Init /\ [][NextCap]_vars

(***************************************************************************)
(* C1: in every state reachable by local mutators, batch(), undo(),        *)
(* redo() and applyRemoteOperations() the undo stack holds at most         *)
(* MAX_UNDO_STACK entries.                                                 *)
(***************************************************************************)
UndoStackCapped == Len(doc.undoStack) <= MAX_UNDO_STACK

\* a commit onto a full undo stack, and a redo() that fills the undo stack
UndoStackFull ==
    /\ Len(doc.undoStack) = MAX_UNDO_STACK
    /\ \/ last.call = "batch" /\ Len(pre.undoStack) = MAX_UNDO_STACK
       \/ last.call = "redo" /\ Len(pre.undoStack) = MAX_UNDO_STACK - 1

(***************************************************************************)
(* C4: the mutations made inside one successful batch(fn) are undone as a  *)
(* single unit: one undo() directly after the batch restores the tree to   *)
(* its state before the batch.                                             *)
(***************************************************************************)
UndoRevertsBatch ==
    [][(last.call = "batch" /\ last.err = "" /\ Calls("undo")) =>
          TreeView(doc') = TreeView(batchPre)]_vars

\* undo() directly after a successful batch has left another tree than the
\* one before the batch
UndoMissesBatch ==
    /\ last.call = "undo" /\ last.prev = "batch" /\ last.err = ""
    /\ batchLog.dispatched >= 2 /\ batchLog.thrown = 0 /\ batchLog.refused = 0
    /\ TreeView(doc) # TreeView(batchPre)

(***************************************************************************)
(* C5, as stated: every successful batch(fn), also one whose fn makes no   *)
(* mutation, invokes the broadcast callback exactly once and notifies each *)
(* registered subscriber exactly once.                                     *)
(***************************************************************************)
BatchNotifiesOnce ==
    (last.call = "batch" /\ last.err = "") =>
        /\ Len(Broadcasts(out)) = 1
        /\ \A i \in 1..Len(doc.subscribers) : Len(NotificationsOf(out, i)) = 1

(***************************************************************************)
(* C5, amended: every successful batch(fn) invokes the broadcast callback  *)
(* exactly once; it notifies each registered subscriber exactly once when  *)
(* fn dispatched at least one mutation, and notifies no subscriber when fn *)
(* dispatched none.                                                        *)
(***************************************************************************)
BatchNotifiesOnceIfDispatched ==
    (last.call = "batch" /\ last.err = "") =>
        /\ Len(Broadcasts(out)) = 1
        /\ \A i \in 1..Len(doc.subscribers) :
              Len(NotificationsOf(out, i)) = IF batchLog.dispatched > 0 THEN 1 ELSE 0
        /\ Len(Notifications(out)) = IF batchLog.dispatched > 0 THEN Len(doc.subscribers) ELSE 0

\* a successful batch of several mutator calls with a subscriber registered
BatchNotifiedOnce ==
    /\ last.call = "batch" /\ last.err = ""
    /\ batchLog.dispatched >= 2
    /\ doc.subscribers # <<>>
    /\ Len(Notifications(out)) = Len(doc.subscribers)

(***************************************************************************)
(* C6: when fn throws inside batch(fn), the document is no longer batching *)
(* when batch() exits and the batch buffer is empty; the buffer is empty   *)
(* whenever no batch is open, an open batch holds what its own mutator     *)
(* calls dispatched, and a batch commits its own ops and reverse ops only, *)
(* so that nothing accumulated before the throw is broadcast or pushed     *)
(* onto the undo stack later.                                              *)
(***************************************************************************)
ThrowingBatchLeaksNothing ==
    /\ (last.call = "batch" /\ last.err # "") => (~doc.isBatching /\ doc.toBatch = EmptyBatch)
    /\ ~doc.isBatching => doc.toBatch = EmptyBatch
    /\ doc.isBatching =>
          (doc.toBatch.ops = batchLog.ops /\ doc.toBatch.reverseOps = batchLog.reverseOps)
    /\ last.call = "batch" =>
          /\ Broadcasts(out) = <<Broadcast(batchLog.ops)>>
          /\ doc.undoStack # <<>>
          /\ Last(doc.undoStack) = batchLog.reverseOps

\* a batch has committed its mutations after an earlier batch threw with
\* mutations in its buffer
BatchAfterThrowingBatch ==
    /\ last.call = "batch" /\ last.err = ""
    /\ batchLog.thrown = 1
    /\ batchLog.dispatched >= 1

(***************************************************************************)
(* C7: batch(), undo() or redo() called while a batch is open raises an    *)
(* error and changes nothing (tree, undo stack, redo stack, batch buffer), *)
(* broadcasts nothing and notifies nobody; the outer batch stays open and  *)
(* commits exactly once when its fn ends.                                  *)
(***************************************************************************)
RefusedInBatch ==
    /\ (last.batching /\ last.call \in {"batch.begin", "undo", "redo"}) =>
          /\ last.err # ""
          /\ doc = pre
          /\ doc.isBatching
          /\ out = <<>>
    /\ (last.call = "batch" /\ batchLog.refused = 1) =>
          /\ ~doc.isBatching
          /\ Broadcasts(out) = <<Broadcast(batchLog.ops)>>
          /\ doc.undoStack = Append(pre.undoStack, batchLog.reverseOps)
          /\ doc.redoStack = <<>>

\* undo() was refused in a batch that had dispatched, with an entry to undo
UndoRefusedInBatch ==
    /\ last.batching /\ last.call = "undo" /\ last.err = "undo is not allowed during a batch"
    /\ Len(pre.undoStack) >= 2
    /\ pre.toBatch.ops # <<>>

(***************************************************************************)
(* C8: applyRemoteOperations(ops) never invokes the broadcast callback and *)
(* leaves the undo stack and the redo stack unchanged.                     *)
(***************************************************************************)
RemoteKeepsStacks ==
    last.call = "applyRemoteOperations" =>
        /\ Broadcasts(out) = <<>>
        /\ doc.undoStack = pre.undoStack
        /\ doc.redoStack = pre.redoStack

\* remote ops have changed the tree of a document that has entries to undo
\* and to redo, and its subscriber was notified
RemoteChangedTree ==
    /\ last.call = "applyRemoteOperations" /\ last.err = ""
    /\ TreeView(doc) # TreeView(pre)
    /\ doc.undoStack # <<>>
    /\ doc.redoStack # <<>>
    /\ Notifications(out) # <<>>

(***************************************************************************)
(* C9, as stated: every local mutator call outside a batch pushes exactly  *)
(* one reverse list onto the undo stack, empties the redo stack and        *)
(* invokes broadcast exactly once, before any subscriber is notified; a    *)
(* redo() directly after the call is a no-op.                              *)
(***************************************************************************)
EveryMutatorDispatches ==
    [][/\ AfterMutator =>
            /\ Len(doc.undoStack) = Len(pre.undoStack) + 1
            /\ Front(doc.undoStack) = pre.undoStack
            /\ doc.redoStack = <<>>
            /\ Len(Broadcasts(out)) = 1
            /\ out[1].e = "broadcast"
       /\ (AfterMutator /\ Calls("redo")) => (doc' = doc /\ out' = <<>>)]_vars

(***************************************************************************)
(* C9, amended: every local mutator call outside a batch, other than       *)
(* LiveMap.delete of an absent key, pushes exactly one reverse list onto   *)
(* the undo stack, empties the redo stack and invokes broadcast exactly    *)
(* once, with a non-empty op list, before any subscriber is notified; a    *)
(* redo() directly after the call is a no-op.                              *)
(***************************************************************************)
MutatorDispatches ==
    [][/\ AfterDispatch =>
            /\ Len(doc.undoStack) = Len(pre.undoStack) + 1
            /\ Front(doc.undoStack) = pre.undoStack
            /\ doc.redoStack = <<>>
            /\ Len(Broadcasts(out)) = 1
            /\ out[1].e = "broadcast"
            /\ out[1].ops # <<>>
       /\ (AfterDispatch /\ Calls("redo")) => (doc' = doc /\ out' = <<>>)]_vars

\* a mutator call has emptied a redo stack that held an entry, and the
\* subscriber was notified after the broadcast
MutatorEmptiedRedo ==
    /\ AfterDispatch
    /\ pre.redoStack # <<>>
    /\ Len(out) >= 2 /\ out[2].e = "notify"

(***************************************************************************)
(* C10: two replicas that start from structurally equal trees and apply    *)
(* the same ops through applyRemoteOperations, each in its own order, end  *)
(* with structurally equal trees, the order of a list being the order of   *)
(* its positions.                                                          *)
(***************************************************************************)
Delivered == last.call # "new" /\ net.a = {} /\ net.b = {}

ReplicasConverge == Delivered => OrderView(doc) = OrderView(peer)

\* both replicas have received every op and hold different trees
ReplicasDiverged == Delivered /\ OrderView(doc) # OrderView(peer)

\* the replicas start from structurally equal trees
ReplicasStartEqual == last.call = "load" => TreeView(doc) = TreeView(peer)

(***************************************************************************)
(* SpecPeers: two replicas loaded from the same records and a server.      *)
(* Each local call of a replica is broadcast to the server, which appends  *)
(* the op list to its log; the server sends every op list of the log to    *)
(* both replicas (to its sender too), and a replica hands what it receives *)
(* to applyRemoteOperations.  net is [log, gotA, gotB]: the log, each      *)
(* entry with its sender and the entries the sender had received when it   *)
(* made the call, and the log indices each replica has received, in the    *)
(* order it received them.                                                 *)
(***************************************************************************)
MaxPeerCalls == 2

PeersRoot == <<E(KeyA, S(0)), E(KeyB, EmptyList)>>

\* the value a replica writes: its own scalar, or a new LiveObject
PeerValues(actor) == {S(actor + 1), EmptyObject}

Sent(r, from, got) ==
    [from |-> from, ops |-> Broadcasts(r.out)[1].ops, seen |-> Range(got)]

\* both replicas are loaded from the records of the same root
PeersLoad ==
    /\ last.call = "new"
    /\ \E records \in {ConvRecords(PeersRoot)} :
        \E loaded \in {[actor \in {Actor, RemoteActor} |-> DocLoad(records, actor).d]} :
            /\ doc' = loaded[Actor]
            /\ peer' = loaded[RemoteActor]
    /\ net' = [log |-> <<>>, gotA |-> <<>>, gotB |-> <<>>]
    /\ out' = <<>>
    /\ last' = [call |-> "load", err |-> "", batching |-> FALSE, n |-> 0, prev |-> "new"]
    /\ pre' = doc
    /\ UNCHANGED <<batchPre, batchLog>>

\* the first replica makes a local call with outcome r
CallA(call, r) ==
    /\ doc' = r.d
    /\ out' = r.out
    /\ last' = LastCall(call, r.err, FALSE)
    /\ pre' = doc
    /\ net' = [net EXCEPT !.log = Append(@, Sent(r, Actor, net.gotA))]
    /\ UNCHANGED <<peer, batchPre, batchLog>>

\* the second replica makes a local call with outcome r
CallB(call, r) ==
    /\ peer' = r.d
    /\ last' = LastCall(call, r.err, FALSE)
    /\ net' = [net EXCEPT !.log = Append(@, Sent(r, RemoteActor, net.gotB))]
    /\ UNCHANGED <<doc, out, pre, batchPre, batchLog>>

PeerUpdateA ==
    /\ last.call # "new" /\ last.n < MaxPeerCalls
    /\ \E key \in Keys, value \in PeerValues(Actor) :
        \E r \in {ObjectUpdate(doc, doc.root, <<E(key, value)>>)} : CallA("update", r)

PeerUpdateB ==
    /\ last.call # "new" /\ last.n < MaxPeerCalls
    /\ \E key \in Keys, value \in PeerValues(RemoteActor) :
        \E r \in {ObjectUpdate(peer, peer.root, <<E(key, value)>>)} : CallB("update", r)

\* insert(element, 0)
PeerListInsertA ==
    /\ last.call # "new" /\ last.n < MaxPeerCalls
    /\ \E id \in NodesOf(doc, "List") :
        \E r \in {LiveListInsert(doc, id, S(Actor + 1), 0)} : CallA("list.insert", r)

PeerListInsertB ==
    /\ last.call # "new" /\ last.n < MaxPeerCalls
    /\ \E id \in NodesOf(peer, "List") :
        \E r \in {LiveListInsert(peer, id, S(RemoteActor + 1), 0)} : CallB("list.insert", r)

\* the first replica receives an op list of the log
ReceiveA ==
    /\ last.call # "new"
    /\ \E i \in (1..Len(net.log)) \ Range(net.gotA) :
        \E r \in {ApplyRemoteOperations(doc, net.log[i].ops)} :
            /\ doc' = r.d
            /\ out' = r.out
            /\ net' = [net EXCEPT !.gotA = Append(@, i)]
    /\ last' = [last EXCEPT !.call = "applyRemoteOperations", !.prev = last.call]
    /\ pre' = doc
    /\ UNCHANGED <<peer, batchPre, batchLog>>

\* the second replica receives an op list of the log
ReceiveB ==
    /\ last.call # "new"
    /\ \E i \in (1..Len(net.log)) \ Range(net.gotB) :
        \E r \in {ApplyRemoteOperations(peer, net.log[i].ops)} :
            /\ peer' = r.d
            /\ net' = [net EXCEPT !.gotB = Append(@, i)]
    /\ UNCHANGED <<doc, out, last, pre, batchPre, batchLog>>

NextPeers ==
    \/ PeersLoad
    \/ PeerUpdateA
    \/ PeerUpdateB
    \/ PeerListInsertA
    \/ PeerListInsertB
    \/ ReceiveA
    \/ ReceiveB

SpecPeers == Init /\ [][NextPeers]_vars

\* the replicas are loaded
PeersLoaded == last.call # "new"

\* every op list of the log has reached both replicas
AllReceived ==
    /\ PeersLoaded
    /\ Len(net.gotA) = Len(net.log)
    /\ Len(net.gotB) = Len(net.log)

\* each replica has received the op lists in the order of the server's log
InServerOrder ==
    /\ PeersLoaded
    /\ \A i \in 1..Len(net.gotA) : net.gotA[i] = i
    /\ \A i \in 1..Len(net.gotB) : net.gotB[i] = i

\* the ops of the log, in server order
LogOps == SeqConcat([i \in 1..Len(net.log) |-> net.log[i].ops])

\* op writes the key k of the object o
Writes(op, o, k) ==
    \/ op.type = "UpdateObject" /\ op.id = o /\ MapHas(op.data.map, k)
    \/ op.type \in CreateTypes /\ op.parentId = o /\ op.parentKey = k

\* the value op writes under the key k: a scalar, or the node it creates
Written(op, k) ==
    IF op.type = "UpdateObject" THEN MapGet(op.data.map, k) ELSE NodeRef(op.id)

\* the last op of ops that writes the key k of o
LastWrite(ops, o, k) ==
    ops[CHOOSE i \in 1..Len(ops) :
            /\ Writes(ops[i], o, k)
            /\ \A j \in (i + 1)..Len(ops) : ~Writes(ops[j], o, k)]

WrittenKeys(ops, o) == {k \in Keys : \E i \in 1..Len(ops) : Writes(ops[i], o, k)}

\* the replica d holds, under every written key of its root, what the last
\* op on that key in server order wrote
HoldsLastWrites(d) ==
    \A k \in WrittenKeys(LogOps, d.root) :
        MapGet(d.items[d.root].map, k) = Written(LastWrite(LogOps, d.root, k), k)

(***************************************************************************)
(* C11: with every op list delivered to both replicas in the order of the  *)
(* server's log, once everything is delivered each replica holds, under    *)
(* every key of the root LiveObject, the value written by the last op on   *)
(* that key in server order, for scalar values and for node values.        *)
(***************************************************************************)
LastWriterWins ==
    (AllReceived /\ InServerOrder) => (HoldsLastWrites(doc) /\ HoldsLastWrites(peer))

\* everything was delivered in server order, and a replica holds under a key
\* something else than what the last op on that key wrote
LastWriterLost ==
    /\ AllReceived /\ InServerOrder
    /\ ~(HoldsLastWrites(doc) /\ HoldsLastWrites(peer))

\* the same for the keys whose writes in the log are all scalar writes
ScalarKeys(d) ==
    {k \in WrittenKeys(LogOps, d.root) :
        \A i \in 1..Len(LogOps) :
            Writes(LogOps[i], d.root, k) => LogOps[i].type = "UpdateObject"}

ScalarLastWriterWins ==
    (AllReceived /\ InServerOrder) =>
        \A d \in {doc, peer} : \A k \in ScalarKeys(d) :
            MapGet(d.items[d.root].map, k) = Written(LastWrite(LogOps, d.root, k), k)

(***************************************************************************)
(* C12: two replicas call update concurrently, each on one key of the root *)
(* and the two keys distinct; once each has received the other's op list   *)
(* and the echo of its own, in whatever order, both replicas hold under    *)
(* both keys the values written.                                           *)
(***************************************************************************)
\* the log holds two calls of update on the root, one per replica, on
\* distinct keys, the second made before its replica received the first
ConcurrentDistinctUpdates ==
    /\ PeersLoaded
    /\ Len(net.log) = 2
    /\ net.log[1].from # net.log[2].from
    /\ 1 \notin net.log[2].seen
    /\ \A i \in {1, 2} : Cardinality(WrittenKeys(net.log[i].ops, doc.root)) = 1
    /\ WrittenKeys(net.log[1].ops, doc.root) # WrittenKeys(net.log[2].ops, doc.root)

\* the replica d holds what both calls wrote
HoldsBothWrites(d) ==
    \A i \in {1, 2} : \A k \in WrittenKeys(net.log[i].ops, d.root) :
        MapGet(d.items[d.root].map, k) = Written(LastWrite(net.log[i].ops, d.root, k), k)

DistinctKeysSurvive ==
    (AllReceived /\ ConcurrentDistinctUpdates) => (HoldsBothWrites(doc) /\ HoldsBothWrites(peer))

\* both replicas have received both op lists, the first replica the other's
\* before the echo of its own, and both hold both values
DistinctKeysSurvived ==
    /\ AllReceived /\ ConcurrentDistinctUpdates
    /\ net.log[1].from = Actor /\ net.gotA = <<2, 1>>
    /\ HoldsBothWrites(doc) /\ HoldsBothWrites(peer)

(***************************************************************************)
(* C13: the replicas share a root whose key holds 0; the first replica     *)
(* sets the key to 1, the second receives that op and then sets the key to *)
(* 2.  Once both replicas have applied both UpdateObject ops through       *)
(* applyRemoteOperations, in either order, both hold 2 under the key.      *)
(***************************************************************************)
\* the op list is one UpdateObject of the root that writes v under KeyA
SetsKeyA(ops, v) ==
    /\ Len(ops) = 1
    /\ ops[1].type = "UpdateObject" /\ ops[1].id = doc.root
    /\ ops[1].data.map = <<E(KeyA, v)>>

\* the scenario: set by the first replica, received by the second, which
\* then sets the same key
SetAfterReceivedSet ==
    /\ PeersLoaded
    /\ Len(net.log) = 2
    /\ net.log[1].from = Actor /\ SetsKeyA(net.log[1].ops, S(Actor + 1))
    /\ net.log[2].from = RemoteActor /\ SetsKeyA(net.log[2].ops, S(RemoteActor + 1))
    /\ 1 \in net.log[2].seen

ValueOfKeyA(d) == MapGet(d.items[d.root].map, KeyA)

LaterSetWins ==
    (AllReceived /\ SetAfterReceivedSet) =>
        (ValueOfKeyA(doc) = S(RemoteActor + 1) /\ ValueOfKeyA(peer) = S(RemoteActor + 1))

\* both replicas have applied both ops, the first replica the later op before
\* the echo of its own, and the first replica holds its own value
LaterSetLost ==
    /\ AllReceived /\ SetAfterReceivedSet
    /\ net.gotA = <<2, 1>>
    /\ ValueOfKeyA(doc) = S(Actor + 1)
    /\ ValueOfKeyA(peer) = S(RemoteActor + 1)

\* in the server's order both replicas hold the later value
LaterSetWinsInServerOrder ==
    (AllReceived /\ SetAfterReceivedSet /\ InServerOrder) =>
        (ValueOfKeyA(doc) = S(RemoteActor + 1) /\ ValueOfKeyA(peer) = S(RemoteActor + 1))

(***************************************************************************)
(* C14: two replicas each insert an element at index 0 of the same empty   *)
(* list, both minting the same position; once each has applied the other's *)
(* Create op, the two lists hold the two elements in the same order.       *)
(***************************************************************************)
\* the op list creates one register under the list l at the position pos
InsertsAt(ops, l, pos) ==
    /\ Len(ops) = 1
    /\ ops[1].type = "CreateRegister" /\ ops[1].parentId = l /\ ops[1].parentKey = pos

\* the log holds two concurrent inserts, one per replica, into the list l,
\* at the first position of an empty list
ConcurrentInserts(l) ==
    /\ Len(net.log) = 2
    /\ net.log[1].from # net.log[2].from
    /\ 1 \notin net.log[2].seen
    /\ \A i \in {1, 2} : InsertsAt(net.log[i].ops, l, makePosition(NoKey, NoKey))

\* each replica has received the op lists of the other
OthersReceived ==
    \A i \in 1..Len(net.log) :
        IF net.log[i].from = Actor THEN i \in Range(net.gotB) ELSE i \in Range(net.gotA)

\* the elements of the list l of the replica d, by index
ElementsOf(d, l) == [i \in 1..Len(d.items[l].items) |-> d.items[l].items[i].id]

SameListOrder ==
    PeersLoaded =>
        \A l \in NodesOf(doc, "List") \cap NodesOf(peer, "List") :
            (ConcurrentInserts(l) /\ OthersReceived) => ElementsOf(doc, l) = ElementsOf(peer, l)

\* both replicas hold both elements, each with the other's element first
ListOrdersDiffer ==
    /\ PeersLoaded
    /\ \E l \in NodesOf(doc, "List") \cap NodesOf(peer, "List") :
        /\ ConcurrentInserts(l) /\ OthersReceived
        /\ Len(ElementsOf(doc, l)) = 2
        /\ ElementsOf(doc, l) = <<net.log[2].ops[1].id, net.log[1].ops[1].id>>
        /\ ElementsOf(peer, l) = <<net.log[1].ops[1].id, net.log[2].ops[1].id>>
        /\ net.log[1].from = Actor

(***************************************************************************)
(* SpecTree: one replica; local list edits, undo, redo and remote ops      *)
(* aimed at the lists' positions and children                              *)
(***************************************************************************)
MaxTreeCalls == 3

PositionsOf(d, l) == {d.items[l].items[i].pos : i \in 1..Len(d.items[l].items)}

\* the op lists a peer may send: creations at a position of a list (taken or
\* not), moves of a list child to a position of its list (its own or
\* another child's), and deletions of list children
TreeRemoteOps(d) ==
    {<<CreateRegisterOp(RemoteId, l, makePosition(NoKey, NoKey), RemoteValue)>> :
        l \in NodesOf(d, "List")}
    \cup UNION {{<<CreateRegisterOp(RemoteId, l, pos, RemoteValue)>> : pos \in PositionsOf(d, l)} :
                    l \in NodesOf(d, "List")}
    \cup UNION {{<<SetParentKeyOp(d.items[l].items[i].id, pos)>> :
                        i \in 1..Len(d.items[l].items), pos \in PositionsOf(d, l)} :
                    l \in NodesOf(d, "List")}
    \cup UNION {{<<DeleteCrdtOp(d.items[l].items[i].id)>> : i \in 1..Len(d.items[l].items)} :
                    l \in NodesOf(d, "List")}

TreeFrom == FromOf({RootContainers, RootList})
TreeListInsert == ListInsertOf({S(1)}, MaxTreeCalls)
TreeListMove == ListMoveOf(MaxTreeCalls)
TreeListDelete == ListDeleteOf(MaxTreeCalls)
TreeUndo == UndoOf(MaxTreeCalls)
TreeRedo == RedoOf(MaxTreeCalls)

TreeRemote ==
    /\ last.call # "new"
    /\ last.n < MaxTreeCalls
    /\ \E ops \in TreeRemoteOps(doc) :
        \E r \in {ApplyRemoteOperations(doc, ops)} :
            DocCall("applyRemoteOperations", r, MaxTreeCalls)

NextTree ==
    \/ TreeFrom
    \/ TreeListInsert
    \/ TreeListMove
    \/ TreeListDelete
    \/ TreeUndo
    \/ TreeRedo
    \/ TreeRemote

SpecTree == Init /\ [][NextTree]_vars

\* Doc.from or Doc.load has run
Constructed == last.call # "new"

\* the ids reached from id through the child links, whether indexed or not
RECURSIVE ReachableFrom(_, _)
ReachableFrom(items, id) ==
    IF id \notin DOMAIN items THEN {id}
    ELSE {id} \cup UNION {ReachableFrom(items, c) : c \in ChildIds(items[id])}

\* the [holder, key] pairs under which an indexed node holds an instance that
\* is not attached
HeldDetached(d) ==
    {hk \in (DOMAIN d.items) \X Keys : MapGet(d.items[hk[1]].map, hk[2]).tag = "d"}

(***************************************************************************)
(* C15: in every reachable state the id index holds exactly the nodes      *)
(* reachable from the root through child links: every reachable node is    *)
(* indexed under its id and no removed node stays indexed.                 *)
(***************************************************************************)
IndexIsTree ==
    Constructed =>
        /\ DOMAIN doc.items = ReachableFrom(doc.items, doc.root)
        /\ HeldDetached(doc) = {}

\* after a redo the root holds, under a key, a node that is not indexed
UnindexedChild ==
    /\ last.call = "redo" /\ last.err = ""
    /\ \E k \in Keys : <<doc.root, k>> \in HeldDetached(doc)

(***************************************************************************)
(* C16: in every reachable state every attached node other than the root   *)
(* has a parent p and a parentKey k, and the child p stores under k is     *)
(* that node; so for the children given to a LiveList constructor and for  *)
(* the list children moved aside by a remote op that took their position.  *)
(***************************************************************************)
\* the container p stores the node id under the key k
StoresUnder(d, p, k, id) ==
    /\ p \in DOMAIN d.items
    /\ IF d.items[p].type = "List"
       THEN \E i \in 1..Len(d.items[p].items) : d.items[p].items[i] = Item(id, k)
       ELSE MapGet(d.items[p].map, k) = NodeRef(id)

\* the stored parent link of the node id is matched by its parent
LinkedToParent(d, id) ==
    /\ d.items[id].parent # NoId
    /\ d.items[id].parentKey # NoKey
    /\ StoresUnder(d, d.items[id].parent, d.items[id].parentKey, id)

ParentHoldsChild ==
    Constructed => \A id \in DOMAIN doc.items \ {doc.root} : LinkedToParent(doc, id)

\* a remote creation has taken the position of a list child that has a parent
\* link: the list now stores that child under another position than the
\* child's parentKey
MovedAsideKeepsKey ==
    /\ last.call = "applyRemoteOperations"
    /\ \E id \in DOMAIN doc.items \cap DOMAIN pre.items :
        /\ LinkedToParent(pre, id)
        /\ doc.items[id].parent # NoId
        /\ doc.items[doc.items[id].parent].type = "List"
        /\ ~LinkedToParent(doc, id)

(***************************************************************************)
(* C17: in every reachable state the positions of the children of each     *)
(* LiveList are pairwise distinct and the list's index order is the        *)
(* ascending order of the positions, after local insert, move and delete,  *)
(* remote creations, SetParentKey and DeleteCrdt, undo and redo.           *)
(***************************************************************************)
\* the items of the list l are in strictly ascending order of position
StrictlyAscending(d, l) ==
    \A i, j \in 1..Len(d.items[l].items) :
        i < j => /\ d.items[l].items[i].pos # d.items[l].items[j].pos
                 /\ compare(d.items[l].items[i].pos, d.items[l].items[j].pos) < 0

PositionsAscend ==
    Constructed => \A l \in NodesOf(doc, "List") : StrictlyAscending(doc, l)

\* a remote op has taken the position of a list child: the child now has
\* another position, another child holds its old one, and the list has at
\* least three children in ascending order of position
MovedAsideInOrder ==
    /\ last.call = "applyRemoteOperations"
    /\ \E l \in NodesOf(doc, "List") \cap NodesOf(pre, "List") :
        /\ Len(doc.items[l].items) >= 3
        /\ StrictlyAscending(doc, l)
        /\ \E i \in 1..Len(pre.items[l].items), j, k \in 1..Len(doc.items[l].items) :
            /\ doc.items[l].items[j].id = pre.items[l].items[i].id
            /\ doc.items[l].items[j].pos # pre.items[l].items[i].pos
            /\ doc.items[l].items[k].id # pre.items[l].items[i].id
            /\ doc.items[l].items[k].pos = pre.items[l].items[i].pos

(***************************************************************************)
(* SpecLoad: a document is built by Doc.from, or loaded from a record      *)
(* list; local mutators are called on it; its root is serialized and the   *)
(* records are loaded again, by a replica with the same or another actor   *)
(* number.  net is [records]: the record list of the last load.            *)
(*                                                                         *)
(* The index of the model holds one node per id, so the model follows a    *)
(* document only as long as the ids it is about to mint are not taken: the *)
(* mutators are not called on a document whose next ids are in its index.  *)
(***************************************************************************)
MaxLoadCalls == 2

\* the number of ids one mutator call of this specification mints at most
MaxMinted == 2

\* the records of the tree Doc.from builds for the actor
RecordsOf(root, actor) ==
    LET r == DocFrom(root, actor)
    IN  ToRecords(Serialize(r.d.items, r.d.root, NoId, NoKey))

Reverse(s) == [i \in 1..Len(s) |-> s[Len(s) + 1 - i]]

\* the record lists Doc.load is called with: none, the records of a tree (in
\* serialization order and reversed), the same without the root's record,
\* and the records of two trees together
RecordLists ==
    {<<>>}
    \cup UNION {{RecordsOf(root, a), Reverse(RecordsOf(root, a)), Tail(RecordsOf(root, a))} :
                    root \in {RootContainers, RootList}, a \in {Actor, RemoteActor}}
    \cup {RecordsOf(RootList, Actor) \o RecordsOf(RootContainers, RemoteActor),
          RecordsOf(RootContainers, RemoteActor) \o RecordsOf(RootList, Actor)}

\* the ids the document mints next are not in its index
NextIdsFree(d) ==
    \A c \in d.clock..(d.clock + MaxMinted - 1) : <<d.actor, c>> \notin DOMAIN d.items

\* Doc.load(records, Actor)
LoadRecords ==
    /\ last.call = "new"
    /\ \E records \in RecordLists :
        \E r \in {DocLoad(records, Actor)} :
            /\ doc' = r.d
            /\ out' = r.out
            /\ last' = [call |-> "load", err |-> r.err, batching |-> FALSE, n |-> 0, prev |-> "new"]
            /\ net' = [records |-> records]
    /\ pre' = doc
    /\ UNCHANGED <<peer, batchPre, batchLog>>

\* Doc.from(root)
LoadFrom ==
    /\ FromOf({RootContainers, RootList})
    /\ UNCHANGED net

\* Doc.load(records, actor) with the records of the document's own tree
Reload ==
    /\ last.call # "new" /\ last.err = ""
    /\ last.n < MaxLoadCalls
    /\ \E records \in {ToRecords(Serialize(doc.items, doc.root, NoId, NoKey))},
          actor \in {Actor, RemoteActor} :
        \E r \in {DocLoad(records, actor)} :
            /\ doc' = r.d
            /\ out' = r.out
            /\ last' = LastCall("load", r.err, FALSE)
            /\ net' = [records |-> records]
    /\ pre' = doc
    /\ UNCHANGED <<peer, batchPre, batchLog>>

LoadUpdate ==
    /\ NextIdsFree(doc)
    /\ UpdateOf({<<E(KeyA, S(2))>>, <<E(KeyA, ListOfOne)>>, <<E(KeyB, EmptyObject)>>}, MaxLoadCalls)

LoadMapSet == NextIdsFree(doc) /\ MapSetOf({S(1)}, MaxLoadCalls)

LoadListInsert == NextIdsFree(doc) /\ ListInsertOf({S(1)}, MaxLoadCalls)

LoadListMove == NextIdsFree(doc) /\ ListMoveOf(MaxLoadCalls)

NextLoad ==
    \/ LoadRecords
    \/ LoadFrom
    \/ Reload
    \/ LoadUpdate
    \/ LoadMapSet
    \/ LoadListInsert
    \/ LoadListMove

SpecLoad == Init /\ [][NextLoad]_vars

\* a document was built or loaded
Built == last.call # "new" /\ last.err = "" /\ doc.root # NoId

(***************************************************************************)
(* C18: no two attached nodes of a document share an id: every id that     *)
(* generateId mints for a node attached by a local mutator is absent from  *)
(* the id index at that moment, in a document built by Doc.from and in one *)
(* produced by load() from records whose ids carry the same actor number.  *)
(***************************************************************************)
MintedIdIsFree == Built => generateId(doc) \notin DOMAIN doc.items

\* a document loaded from records minted by its own actor number: the first
\* id it will mint is the id of its root
LoadedOverOwnIds ==
    /\ Built /\ last.call = "load"
    /\ doc.clock = 0
    /\ generateId(doc) = doc.root

\* in a document built by Doc.from and changed by local mutators only, the
\* next id is free
MintedIdIsFreeAfterFrom ==
    (Built /\ net = NoNet) => generateId(doc) \notin DOMAIN doc.items

(***************************************************************************)
(* C19: Doc.load succeeds only when the record list holds exactly one      *)
(* record without a parentId; with none (the empty list included) or with  *)
(* two or more, load fails with an error.                                  *)
(***************************************************************************)
ParentlessCount(records) ==
    Cardinality({i \in 1..Len(records) : records[i].parentId = NoId})

LoadNeedsOneRoot ==
    last.call = "load" => (ParentlessCount(net.records) # 1 => last.err # "")

\* a list with two records without a parentId was loaded: the later of the
\* two is the root
TwoRootsLoaded ==
    /\ last.call = "load" /\ last.err = ""
    /\ ParentlessCount(net.records) = 2
    /\ \E i, j \in 1..Len(net.records) :
        /\ i < j
        /\ net.records[i].parentId = NoId
        /\ net.records[j].parentId = NoId
        /\ doc.root = net.records[j].id

\* without any record that has no parentId, load fails
LoadWithoutRootFails ==
    last.call = "load" => (ParentlessCount(net.records) = 0 => last.err # "")

(***************************************************************************)
(* C20: for every tree reachable by local mutators, the flat record list   *)
(* of the root's serialization, passed to Doc.load, yields a document      *)
(* whose tree is structurally equal to the original: same ids, same        *)
(* parent/parentKey links, same scalar data, same list order.              *)
(***************************************************************************)
\* the children an Object or a Map holds, by key
KeyedChildren(n) ==
    {<<n.map[i].k, n.map[i].v.id>> : i \in {j \in 1..Len(n.map) : n.map[j].v.tag = "n"}}

\* the scalar data of a node: an Object's scalar entries, a Register's value
ScalarData(n) ==
    IF n.type = "Object" THEN [tag |-> "f", fn |-> MapFn(MapFilter(n.map, LAMBDA v : ~isCrdt(v)))]
    ELSE n.data

\* per id: the node's type, its stored parent link, its scalar data and the
\* children it holds, a list's in index order
Structure(d) ==
    [id \in DOMAIN d.items |->
        [type |-> d.items[id].type,
         parent |-> d.items[id].parent,
         parentKey |-> d.items[id].parentKey,
         data |-> ScalarData(d.items[id]),
         children |-> KeyedChildren(d.items[id]),
         order |-> d.items[id].items]]

\* the last call loaded the records of the document's own tree
Reloaded == last.call = "load" /\ last.prev # "new"

RoundTrip == Reloaded => (last.err = "" /\ Structure(doc) = Structure(pre))

\* the records of a tree that update has just changed were loaded: the loaded
\* tree is the original but for a list child that has a parent link only in
\* the loaded tree
ReloadLinksListChild ==
    /\ Reloaded /\ last.err = "" /\ last.prev = "update"
    /\ OrderView(doc) = OrderView(pre)
    /\ \E id \in DOMAIN pre.items \cap DOMAIN doc.items :
        /\ pre.items[id].parent = NoId /\ id # pre.root
        /\ doc.items[id].parent # NoId
        /\ doc.items[doc.items[id].parent].type = "List"

\* seen from the containers (ids, the container and the key or position of
\* every node, scalar data, list order) the loaded tree equals the original
RoundTripOfContainers ==
    Reloaded =>
        /\ last.err = ""
        /\ DOMAIN doc.items = DOMAIN pre.items
        /\ TreeView(doc) = TreeView(pre)
        /\ OrderView(doc) = OrderView(pre)

(***************************************************************************)
(* SpecArgs: one replica; net records the arguments of the last mutator    *)
(* call: the node it was called on, the indices and the node passed.  The  *)
(* indices run from one below the first to one past the last.              *)
(***************************************************************************)
MaxArgCalls == 2

Args(id, index, targetIndex, node) ==
    [id |-> id, index |-> index, targetIndex |-> targetIndex, node |-> node]

RangeOfOps(opLists) == {Range(ops) : ops \in opLists}

\* the calls that pass an attached node; the model does not follow a document
\* past such a call
NodeCalls == {"update(node)", "map.set(node)", "list.insert(node)"}

\* the nodes a caller can hold and pass: the containers under the root
Passable(d) == {id \in DOMAIN d.items \ {d.root} : d.items[id].type # "Register"}

\* a call with outcome r and arguments args
ArgsCallOf(call, r, args, max) ==
    /\ last.call # "new"
    /\ last.call \notin NodeCalls
    /\ last.n < max
    /\ doc' = r.d
    /\ out' = r.out
    /\ last' = LastCall(call, r.err, doc.isBatching)
    /\ pre' = doc
    /\ net' = args
    /\ UNCHANGED <<batchPre, batchLog, peer>>

ArgsCall(call, r, args) == ArgsCallOf(call, r, args, MaxArgCalls)

\* {a: new LiveMap([["a", new LiveList([1, 2])]]), b: new LiveList()}
RootMapOfList == <<E(KeyA, Tpl(TMap(<<E(KeyA, ListOfTwo)>>))), E(KeyB, EmptyList)>>

ArgsFrom == FromOf({RootContainers, RootList, RootMapOfList})

ArgsListInsert ==
    \E id \in NodesOf(doc, "List") :
        \E index \in (-1)..(Len(doc.items[id].items) + 1) :
            \E value \in {S(1), EmptyMap} :
                ArgsCall("list.insert", LiveListInsert(doc, id, value, index),
                         Args(id, index, 0, NoId))

ArgsListMove ==
    \E id \in NodesOf(doc, "List") :
        \E index, targetIndex \in (-1)..Len(doc.items[id].items) :
            ArgsCall("list.move", LiveListMove(doc, id, index, targetIndex),
                     Args(id, index, targetIndex, NoId))

ArgsListDelete ==
    \E id \in NodesOf(doc, "List") :
        \E index \in (-1)..Len(doc.items[id].items) :
            ArgsCall("list.delete", LiveListDelete(doc, id, index), Args(id, index, 0, NoId))

ArgsMapSet ==
    \E id \in NodesOf(doc, "Map"), key \in Keys :
        ArgsCall("map.set", LiveMapSet(doc, id, key, EmptyList), Args(id, 0, 0, NoId))

KeyArgs(id, key) ==
    [id |-> id, index |-> 0, targetIndex |-> 0, node |-> NoId, key |-> key]

ArgsMapDelete ==
    \E id \in NodesOf(doc, "Map"), key \in Keys :
        ArgsCall("map.delete", LiveMapDelete(doc, id, key), KeyArgs(id, key))

ArgsUpdateNode ==
    \E id \in NodesOf(doc, "Object"), key \in Keys, nid \in Passable(doc) :
        ArgsCall("update(node)", ObjectUpdateAttached(doc, id, key, nid), Args(id, 0, 0, nid))

ArgsMapSetNode ==
    \E id \in NodesOf(doc, "Map"), key \in Keys, nid \in Passable(doc) :
        ArgsCall("map.set(node)", LiveMapSetAttached(doc, id, key, nid), Args(id, 0, 0, nid))

ArgsListInsertNode ==
    \E id \in NodesOf(doc, "List"), nid \in Passable(doc) :
        \E index \in 0..Len(doc.items[id].items) :
            ArgsCall("list.insert(node)", LiveListInsertAttached(doc, id, nid, index),
                     Args(id, index, 0, nid))

\* ops a peer may send that address no node of the index, create a node
\* under an id of the index, or set the key of the root
StrayOps(d) ==
    {UpdateObjectOp(RemoteId, <<E(KeyA, RemoteValue)>>, RemoteId),
     DeleteObjectKeyOp(RemoteId, KeyA),
     SetParentKeyOp(RemoteId, KeyA),
     SetParentKeyOp(d.root, KeyA),
     CreateMapOp(<<RemoteActor, 1>>, RemoteId, KeyA),
     CreateObjectOp(d.root, d.root, KeyA, <<E(KeyA, RemoteValue)>>),
     CreateListOp(d.root, d.root, KeyB)}
    \cup {CreateRegisterOp(id, pid, makePosition(NoKey, NoKey), RemoteValue) :
             id \in DOMAIN d.items, pid \in NodesOf(d, "List") \cup {d.root}}
    \cup {CreateMapOp(id, d.root, KeyA) : id \in DOMAIN d.items}

RemoteArgs(ops) ==
    [id |-> NoId, index |-> 0, targetIndex |-> 0, node |-> NoId, ops |-> ops]

\* applyRemoteOperations with one op
ArgsRemote ==
    /\ last.call # "new"
    /\ last.n < MaxArgCalls
    /\ \E op \in UNION RangeOfOps(RemoteOps(doc)) \cup StrayOps(doc) :
          \E r \in {ApplyRemoteOperations(doc, <<op>>)} :
              ArgsCall("applyRemoteOperations", r, RemoteArgs(<<op>>))

\* undo() and redo() keep the recorded arguments of the mutator call
ArgsUndo == ArgsCall("undo", DocUndo(doc), net)
ArgsRedo == ArgsCall("redo", DocRedo(doc), net)

NextArgs ==
    \/ ArgsFrom
    \/ Subscribe
    \/ ArgsListInsert
    \/ ArgsListMove
    \/ ArgsListDelete
    \/ ArgsMapSet
    \/ ArgsMapDelete
    \/ ArgsUpdateNode
    \/ ArgsMapSetNode
    \/ ArgsListInsertNode
    \/ ArgsRemote
    \/ ArgsUndo
    \/ ArgsRedo

SpecArgs == Init /\ [][NextArgs]_vars

ListCalls == {"list.insert", "list.move", "list.delete"}

\* the ids of the elements of the list l, in list order
ElementIds(d, l) == [i \in 1..Len(d.items[l].items) |-> d.items[l].items[i].id]

\* the indices of the last list call were within the bounds of its method
IndicesInRange ==
    LET len == Len(pre.items[net.id].items)
    IN  CASE last.call = "list.insert" -> 0 <= net.index /\ net.index <= len
          [] last.call = "list.move" ->
                /\ 0 <= net.index /\ net.index < len
                /\ 0 <= net.targetIndex /\ net.targetIndex < len
          [] OTHER -> 0 <= net.index /\ net.index < len

(***************************************************************************)
(* C21: LiveList.insert with an index outside [0, length], and             *)
(* LiveList.delete or LiveList.move with an index outside [0, length),     *)
(* raises an error and leaves the whole document (list, id index, undo and *)
(* redo stacks) unchanged, with no broadcast and no notification; a call   *)
(* with indices in range raises no error, and insert with index = length   *)
(* appends the new element after the elements the list had.                *)
(***************************************************************************)
IndexRangeChecked ==
    last.call \in ListCalls =>
        IF IndicesInRange
        THEN /\ last.err = ""
             /\ (last.call = "list.insert" /\ net.index = Len(pre.items[net.id].items)) =>
                   /\ Len(ElementIds(doc, net.id)) = Len(ElementIds(pre, net.id)) + 1
                   /\ Front(ElementIds(doc, net.id)) = ElementIds(pre, net.id)
                   /\ Last(ElementIds(doc, net.id)) \notin DOMAIN pre.items
        ELSE /\ last.err # ""
             /\ doc = pre
             /\ out = <<>>

\* a call with an index below 0 was refused on a list that holds elements,
\* with a subscriber registered and a reverse list on the undo stack
OutOfRangeRefused ==
    /\ last.call \in ListCalls /\ last.err # ""
    /\ net.index < 0
    /\ Len(pre.items[net.id].items) > 0
    /\ pre.undoStack # <<>>
    /\ pre.subscribers # <<>>

\* insert(element, length) appended to a list that holds elements
InsertAtLengthAppended ==
    /\ last.call = "list.insert" /\ last.err = ""
    /\ net.index = Len(pre.items[net.id].items) /\ net.index > 0

(***************************************************************************)
(* C22: LiveObject.set/update, LiveMap.set or LiveList.insert called with  *)
(* a node that already has a different parent, or that is already          *)
(* attached, raises an error and has no partial effect: the id index (and  *)
(* with it the children of the target container, the previous value under  *)
(* the key and the pending-update table) and both stacks are as before the *)
(* call, and nothing is broadcast or notified.                             *)
(***************************************************************************)
AttachedNodeRefused ==
    last.call \in NodeCalls =>
        /\ last.err # ""
        /\ doc.items = pre.items
        /\ doc.undoStack = pre.undoStack
        /\ doc.redoStack = pre.redoStack
        /\ out = <<>>

\* LiveMap.set was refused for a node that has another parent, after the
\* container that the map held under the key had left the id index
RefusedAfterDetach ==
    /\ last.call = "map.set(node)"
    /\ last.err = "Cannot attach parent if it already exist"
    /\ net.node \in DOMAIN doc.items /\ net.node # net.id
    /\ DOMAIN pre.items \ DOMAIN doc.items # {}
    /\ MapGet(doc.items[net.id].map, KeyA).tag = "d"

\* every call with an attached node raises an error, broadcasts nothing and
\* leaves both stacks alone; LiveList.insert with a node that has another
\* parent leaves the id index alone as well
AttachedNodeRaises ==
    last.call \in NodeCalls =>
        /\ last.err # ""
        /\ doc.undoStack = pre.undoStack
        /\ doc.redoStack = pre.redoStack
        /\ out = <<>>
        /\ (last.call = "list.insert(node)" /\ pre.items[net.node].parent # net.id) =>
              doc.items = pre.items

\* the op addresses a node (for a creation, a parent) that is not in the index
AddressedAtAbsent(d, op) ==
    (IF op.type \in CreateTypes THEN op.parentId ELSE op.id) \notin DOMAIN d.items

\* the op creates a node under an id that is in the index
CreatesExisting(d, op) == op.type \in CreateTypes /\ op.id \in DOMAIN d.items

\* the op sets the key of a node whose parent is not a LiveList
SetsKeyOutsideList(d, op) ==
    /\ op.type = "SetParentKey"
    /\ op.id \in DOMAIN d.items
    /\ \/ d.items[op.id].parent = NoId
       \/ d.items[d.items[op.id].parent].type # "List"

AfterRemoteOp == last.call = "applyRemoteOperations" /\ Len(net.ops) = 1

(***************************************************************************)
(* C23: a remote op addressed at an id absent from the index, a remote     *)
(* Create* op whose id is already in the index, and a remote SetParentKey  *)
(* on a node whose parent is not a LiveList each leave the whole document  *)
(* unchanged, raise no error and notify no subscriber.                     *)
(***************************************************************************)
StrayOpIgnored ==
    (/\ AfterRemoteOp
     /\ \/ AddressedAtAbsent(pre, net.ops[1])
        \/ CreatesExisting(pre, net.ops[1])
        \/ SetsKeyOutsideList(pre, net.ops[1]))
        => /\ doc = pre
           /\ last.err = ""
           /\ out = <<>>

\* a CreateRegister whose id is in the index, addressed at a list that holds
\* elements, was ignored with a subscriber registered
CreateOfExistingIgnored ==
    /\ AfterRemoteOp
    /\ CreatesExisting(pre, net.ops[1])
    /\ ~AddressedAtAbsent(pre, net.ops[1])
    /\ pre.items[net.ops[1].parentId].type = "List"
    /\ pre.items[net.ops[1].parentId].items # <<>>
    /\ net.ops[1].id # pre.root
    /\ pre.subscribers # <<>>
    /\ doc = pre

(***************************************************************************)
(* SpecMove: one replica; elements are pushed onto a list and moved        *)
(* between valid indices, registers arrive from a peer at positions the    *)
(* list has taken, and the calls are undone and redone.  net records the   *)
(* arguments of the last mutator call.                                     *)
(***************************************************************************)
MaxMoveCalls == 4

MoveFrom == FromOf({<<E(KeyA, S(1)), E(KeyB, EmptyList)>>, RootList})

\* push(element): insert(element, length)
MovePush ==
    \E id \in NodesOf(doc, "List") :
        \E index \in {Len(doc.items[id].items)} :
            ArgsCallOf("list.insert", LiveListInsert(doc, id, S(3), index),
                       Args(id, index, 0, NoId), MaxMoveCalls)

MoveMove ==
    \E id \in NodesOf(doc, "List") :
        \E index, targetIndex \in 0..(Len(doc.items[id].items) - 1) :
            ArgsCallOf("list.move", LiveListMove(doc, id, index, targetIndex),
                       Args(id, index, targetIndex, NoId), MaxMoveCalls)

MoveRemote ==
    /\ last.call # "new"
    /\ last.n < MaxMoveCalls
    /\ \E l \in NodesOf(doc, "List") :
         \E pos \in PositionsOf(doc, l) :
           \E r \in {ApplyRemoteOperations(doc, <<CreateRegisterOp(RemoteId, l, pos, RemoteValue)>>)} :
               ArgsCallOf("applyRemoteOperations", r, net, MaxMoveCalls)

MoveUndo == ArgsCallOf("undo", DocUndo(doc), net, MaxMoveCalls)
MoveRedo == ArgsCallOf("redo", DocRedo(doc), net, MaxMoveCalls)

NextMove ==
    \/ MoveFrom
    \/ MovePush
    \/ MoveMove
    \/ MoveRemote
    \/ MoveUndo
    \/ MoveRedo

SpecMove == Init /\ [][NextMove]_vars

(***************************************************************************)
(* C27: LiveList.move(from, to) with valid indices leaves the moved        *)
(* element at index `to` and all other elements in their previous relative *)
(* order; undo() directly after the move returns the list to the order     *)
(* before the move, and redo() directly after that undo() to the order     *)
(* after the move.                                                         *)
(***************************************************************************)
MoveKeepsOrder ==
    [][/\ Calls("list.move") =>
            LET before == ElementIds(doc, net'.id)
                after == ElementIds(doc', net'.id)
            IN  /\ last'.err = ""
                /\ after[net'.targetIndex + 1] = before[net'.index + 1]
                /\ RemoveAt(after, net'.targetIndex + 1) = RemoveAt(before, net'.index + 1)
       /\ (last.call = "list.move" /\ Calls("undo")) =>
            ElementIds(doc', net.id) = ElementIds(pre, net.id)
       /\ (last.call = "undo" /\ last.prev = "list.move" /\ Calls("redo")) =>
            ElementIds(doc', net.id) = ElementIds(pre, net.id)]_vars

\* undo() and then redo() of a move were called on a list of several
\* elements, and each changed the order
MoveUndoneAndRedone ==
    /\ last.call = "redo" /\ last.prev = "undo" /\ last.err = ""
    /\ net # NoNet /\ net.index # net.targetIndex
    /\ Len(ElementIds(doc, net.id)) >= 2
    /\ ElementIds(doc, net.id) # ElementIds(pre, net.id)
    /\ doc.undoStack # <<>>
    /\ Len(Last(doc.undoStack)) = 1
    /\ Last(doc.undoStack)[1].type = "SetParentKey"

(***************************************************************************)
(* SpecThrow: one replica whose subscribers may throw; scalar updates,     *)
(* batches, undo and redo.  batch(fn) ends with the error of its commit.   *)
(***************************************************************************)
MaxThrowCalls == 3

ThrowFrom == FromOf({<<E(KeyA, S(1))>>})

\* a subscriber whose callback throws registers before the first call
SubscribeThrowing ==
    /\ last.call \in {"from", "subscribe"}
    /\ Len(doc.subscribers) < MaxSubs + 1
    /\ doc' = DocSubscribeThrowing(doc).d
    /\ out' = <<>>
    /\ last' = [last EXCEPT !.call = "subscribe", !.prev = last.call]
    /\ pre' = doc
    /\ UNCHANGED <<batchPre, batchLog, peer, net>>

ThrowUpdate == UpdateOf(ScalarOverrides, MaxThrowCalls)
ThrowBatchBegin == BatchBeginOf(MaxThrowCalls)
ThrowUndo == UndoOf(MaxThrowCalls)
ThrowRedo == RedoOf(MaxThrowCalls)

\* fn returns: the finally block of batch commits
ThrowBatchEnd ==
    /\ doc.isBatching
    /\ \E r \in {BatchExit(doc)} :
        /\ doc' = r.d
        /\ out' = r.out
        /\ last' = [call |-> "batch", err |-> r.err, batching |-> TRUE, n |-> last.n,
                    prev |-> last.call]
    /\ pre' = doc
    /\ UNCHANGED <<batchPre, batchLog, peer, net>>

NextThrow ==
    \/ ThrowFrom
    \/ Subscribe
    \/ SubscribeThrowing
    \/ ThrowUpdate
    \/ ThrowBatchBegin
    \/ ThrowBatchEnd
    \/ ThrowUndo
    \/ ThrowRedo

SpecThrow == Init /\ [][NextThrow]_vars

(***************************************************************************)
(* C24: a subscriber that throws during notification does not corrupt the  *)
(* document: after a throw during undo() or redo() the ops applied locally *)
(* have been broadcast and their reverse is on the opposite stack, and     *)
(* after a throw during a batch commit the batch buffer is empty.          *)
(***************************************************************************)
SubscriberThrowKeepsState ==
    last.err = SubscriberThrew =>
        /\ last.call = "undo" =>
              /\ Len(Broadcasts(out)) = 1
              /\ Len(doc.redoStack) = Len(pre.redoStack) + 1
        /\ last.call = "redo" =>
              /\ Len(Broadcasts(out)) = 1
              /\ Len(doc.undoStack) = Len(pre.undoStack) + 1
        /\ last.call = "batch" => doc.toBatch = EmptyBatch

\* after a batch commit in which a subscriber threw, the commit of the next
\* batch, in which nothing was dispatched, has broadcast the ops of the
\* earlier batch
BatchBroadcastAgain ==
    /\ last.call = "batch" /\ last.prev = "batch.begin"
    /\ batchLog.ops = <<>>
    /\ Len(Broadcasts(out)) = 1
    /\ Broadcasts(out)[1].ops # <<>>
    /\ Len(doc.undoStack) >= 2
    /\ Last(doc.undoStack) = doc.undoStack[Len(doc.undoStack) - 1]

\* undo() ended by a subscriber's exception: the tree is changed, nothing was
\* broadcast and the redo stack is as it was
UndoNotBroadcast ==
    /\ last.call = "undo" /\ last.err = SubscriberThrew
    /\ TreeView(doc) # TreeView(pre)
    /\ Broadcasts(out) = <<>>
    /\ doc.redoStack = pre.redoStack

\* a mutator call outside a batch and applyRemoteOperations notify last: when
\* a subscriber throws, the reverse list is on the undo stack and the ops
\* have been broadcast
MutatorThrowKeepsState ==
    (last.err = SubscriberThrew /\ last.call \in MutatorCalls /\ ~last.batching) =>
        /\ Len(Broadcasts(out)) = 1
        /\ Len(doc.undoStack) = Len(pre.undoStack) + 1
        /\ doc.redoStack = <<>>

(***************************************************************************)
(* SpecSubs: one replica with per-node and global subscribers that         *)
(* register and are disposed between the calls.  net records the           *)
(* subscribers in registration order, those disposed, and the ids whose    *)
(* subscribed instance has left the index.                                 *)
(***************************************************************************)
MaxSubsCalls == 3
MaxRegistered == 2

SubsFrom ==
    /\ last.call = "new"
    /\ \E r \in {DocFrom(RootContainers, Actor)} :
        /\ doc' = r.d
        /\ out' = r.out
    /\ last' = [call |-> "from", err |-> "", batching |-> FALSE, n |-> 0, prev |-> "new"]
    /\ pre' = doc
    /\ net' = [registered |-> <<>>, disposed |-> {}, replaced |-> {}]
    /\ UNCHANGED <<batchPre, batchLog, peer>>

\* subscribe returns: sub is registered
Registers(sub, r) ==
    /\ last.call # "new"
    /\ Len(net.registered) < MaxRegistered
    /\ sub \notin Range(net.registered)
    /\ doc' = r.d
    /\ out' = <<>>
    /\ last' = [last EXCEPT !.call = "subscribe", !.prev = last.call]
    /\ pre' = doc
    /\ net' = [net EXCEPT !.registered = Append(@, sub)]
    /\ UNCHANGED <<batchPre, batchLog, peer>>

SubsSubscribe == Registers([kind |-> "global"], DocSubscribe(doc))

SubsSubscribeNode ==
    \E node \in DOMAIN doc.items :
        /\ doc.items[node].type # "Register"
        /\ Registers([kind |-> "node", node |-> node], DocSubscribeNode(doc, node))

\* a disposer is called
SubsDispose ==
    /\ last.call # "new"
    /\ \E i \in 1..Len(doc.subscribers) :
        /\ doc' = DocUnsubscribe(doc, i).d
        /\ net' = [net EXCEPT !.disposed = @ \cup {doc.subscribers[i]}]
    /\ out' = <<>>
    /\ last' = [last EXCEPT !.call = "dispose", !.prev = last.call]
    /\ pre' = doc
    /\ UNCHANGED <<batchPre, batchLog, peer>>

\* the ids of the subscribed nodes that are not in the index of d
Replaced(d) ==
    {sub.node : sub \in {x \in Range(net.registered) : x.kind = "node" /\ x.node \notin DOMAIN d.items}}

\* a call with outcome r
SubsCall(call, r) ==
    /\ last.call # "new"
    /\ last.n < MaxSubsCalls
    /\ doc' = r.d
    /\ out' = WithCallbacks(doc, r.out, net.replaced)
    /\ last' = LastCall(call, r.err, doc.isBatching)
    /\ pre' = doc
    /\ net' = [net EXCEPT !.replaced = @ \cup Replaced(r.d)]
    /\ UNCHANGED <<batchPre, batchLog, peer>>

SubsUpdate ==
    \E o \in {<<E(KeyA, S(1))>>, <<E(KeyB, S(1))>>} :
        SubsCall("update", ObjectUpdate(doc, doc.root, o))

SubsMapSet ==
    \E id \in NodesOf(doc, "Map") : SubsCall("map.set", LiveMapSet(doc, id, KeyA, S(1)))

SubsListInsert ==
    \E id \in NodesOf(doc, "List") : SubsCall("list.insert", LiveListInsert(doc, id, S(1), 0))

SubsUndo == SubsCall("undo", DocUndo(doc))
SubsRedo == SubsCall("redo", DocRedo(doc))
SubsBatchBegin == SubsCall("batch.begin", BatchEnter(doc))

\* fn returns: the finally block of batch commits
SubsBatchEnd ==
    /\ doc.isBatching
    /\ \E r \in {BatchExit(doc)} :
        /\ doc' = r.d
        /\ out' = WithCallbacks(doc, r.out, net.replaced)
        /\ last' = [call |-> "batch", err |-> r.err, batching |-> TRUE, n |-> last.n,
                    prev |-> last.call]
    /\ pre' = doc
    /\ UNCHANGED <<batchPre, batchLog, peer, net>>

NextSubs ==
    \/ SubsFrom
    \/ SubsSubscribe
    \/ SubsSubscribeNode
    \/ SubsDispose
    \/ SubsUpdate
    \/ SubsMapSet
    \/ SubsListInsert
    \/ SubsUndo
    \/ SubsRedo
    \/ SubsBatchBegin
    \/ SubsBatchEnd

SpecSubs == Init /\ [][NextSubs]_vars

CallbacksOf(events, i) == SelectSeq(events, LAMBDA ev : ev.e = "callback" /\ ev.sub = i)

\* the modified set the subscribers of a commit were called with
ModifiedSet(events) ==
    IF Notifications(events) = <<>> THEN {} ELSE Range(Notifications(events)[1].nodes)

\* this step is a commit: a call outside a batch, or the end of a batch
Commits ==
    \/ last'.n = last.n + 1 /\ ~doc.isBatching /\ last'.call # "batch.begin"
    \/ last'.call = "batch" /\ doc.isBatching

HoldsListOfRegisters(d, id, key) ==
    LET v == MapGet(d.items[id].map, key)
    IN  /\ v.tag = "n"
        /\ d.items[v.id].type = "List"
        /\ d.items[v.id].items # <<>>
        /\ \A c \in ChildIds(d.items[v.id]) : d.items[c].type = "Register"

(***************************************************************************)
(* C26: LiveMap.delete(key) of an entry that is a LiveList holding         *)
(* Registers broadcasts exactly one DeleteCrdt op and removes the list and *)
(* all its Registers from the id index; undo() directly after it makes one *)
(* broadcast call with the full serialization (CreateList, then one        *)
(* CreateRegister per element) and restores the entry with the same ids,   *)
(* key, positions, data and element order.                                 *)
(***************************************************************************)
DeletedListRestored ==
    [][/\ (Calls("map.delete") /\ HoldsListOfRegisters(doc, net'.id, net'.key)) =>
            LET l == MapGet(doc.items[net'.id].map, net'.key).id
            IN  /\ last'.err = ""
                /\ Broadcasts(out') = <<Broadcast(<<DeleteCrdtOp(l)>>)>>
                /\ Descendants(doc.items, l) \cap DOMAIN doc'.items = {}
                /\ MapGet(doc'.items[net'.id].map, net'.key) = Undef
       /\ (/\ last.call = "map.delete"
           /\ HoldsListOfRegisters(pre, net.id, net.key)
           /\ Calls("undo")) =>
            LET l == MapGet(pre.items[net.id].map, net.key).id
                snap == Serialize(pre.items, l, net.id, net.key)
            IN  /\ Broadcasts(out') = <<Broadcast(snap)>>
                /\ snap[1].type = "CreateList"
                /\ Len(snap) = 1 + Len(pre.items[l].items)
                /\ \A i \in 2..Len(snap) : snap[i].type = "CreateRegister"
                /\ MapGet(doc'.items[net.id].map, net.key) = NodeRef(l)
                /\ Serialize(doc'.items, l, net.id, net.key) = snap]_vars

\* undo() directly after the delete of a list of two Registers has brought
\* the list and both Registers back into the index
DeletedListCameBack ==
    /\ last.call = "undo" /\ last.prev = "map.delete" /\ last.err = ""
    /\ HoldsListOfRegisters(doc, net.id, net.key)
    /\ MapGet(pre.items[net.id].map, net.key) = Undef
    /\ Len(Broadcasts(out)) = 1
    /\ Len(Broadcasts(out)[1].ops) = 3

(***************************************************************************)
(* SpecPend: one replica whose root is updated locally and by a peer; the  *)
(* server echoes the replica's own UpdateObject ops back.  net records the *)
(* ops of the last applyRemoteOperations call and every op the replica has *)
(* handed to broadcast.                                                    *)
(***************************************************************************)
MaxPendCalls == 3

PendFrom ==
    /\ last.call = "new"
    /\ \E r \in {DocFrom(<<E(KeyA, S(0)), E(KeyB, S(0))>>, Actor)} :
        /\ doc' = r.d
        /\ out' = r.out
    /\ last' = [call |-> "from", err |-> "", batching |-> FALSE, n |-> 0, prev |-> "new"]
    /\ pre' = doc
    /\ net' = [ops |-> <<>>, sent |-> <<>>]
    /\ UNCHANGED <<batchPre, batchLog, peer>>

\* the ops of the broadcast calls among the events
SentIn(events) ==
    SeqConcat([i \in 1..Len(Broadcasts(events)) |-> Broadcasts(events)[i].ops])

\* a call with outcome r; ops are the ops it was given
PendCall(call, r, ops) ==
    /\ last.call # "new"
    /\ last.n < MaxPendCalls
    /\ doc' = r.d
    /\ out' = r.out
    /\ last' = LastCall(call, r.err, doc.isBatching)
    /\ pre' = doc
    /\ net' = [ops |-> ops, sent |-> net.sent \o SentIn(r.out)]
    /\ UNCHANGED <<batchPre, batchLog, peer>>

PendOverrides ==
    {<<E(KeyA, S(1))>>, <<E(KeyB, S(1))>>, <<E(KeyA, S(2)), E(KeyB, S(2))>>,
     <<E(KeyA, EmptyObject)>>}

PendUpdate ==
    \E o \in PendOverrides : PendCall("update", ObjectUpdate(doc, doc.root, o), <<>>)

PendUndo == PendCall("undo", DocUndo(doc), <<>>)

\* the ops that arrive: an UpdateObject op of the replica's own, echoed, or
\* an UpdateObject op of a peer
PendRemoteOps(d) ==
    {op \in Range(net.sent) : op.type = "UpdateObject"}
    \cup {UpdateObjectOp(d.root, data, RemoteId) :
            data \in {<<E(KeyA, RemoteValue)>>, <<E(KeyB, RemoteValue)>>,
                      <<E(KeyA, RemoteValue), E(KeyB, RemoteValue)>>}}

PendRemote ==
    /\ last.call # "new"
    /\ last.n < MaxPendCalls
    /\ \E op \in PendRemoteOps(doc) :
        \E r \in {ApplyRemoteOperations(doc, <<op>>)} :
            PendCall("applyRemoteOperations", r, <<op>>)

NextPend ==
    \/ PendFrom
    \/ Subscribe
    \/ PendUpdate
    \/ PendUndo
    \/ PendRemote

SpecPend == Init /\ [][NextPend]_vars

\* #propToLastUpdate of the root, and the value the root holds under a key
PendingOf(d) == d.items[d.root].pend
RootValue(d, k) == MapGet(d.items[d.root].map, k)
DataKeys(op) == MapKeys(op.data.map)

\* this step applies one remote UpdateObject op to the root
AppliesRemoteUpdate == Calls("applyRemoteOperations") /\ Len(net'.ops) = 1

\* the key has a pending local update that is not the op's
Conflicts(d, op, k) == k \in DOMAIN PendingOf(d) /\ PendingOf(d)[k] # op.opId
\* the op acknowledges the pending local update of the key
Acknowledges(d, op, k) == k \in DOMAIN PendingOf(d) /\ PendingOf(d)[k] = op.opId

(***************************************************************************)
(* C28: while a key of a LiveObject has a pending local update, a remote   *)
(* UpdateObject whose opId differs from the pending one changes neither    *)
(* the value of that key nor the pending entry, while the keys of the same *)
(* op that have no pending entry are set to the op's values.               *)
(***************************************************************************)
PendingKeyShielded ==
    [][AppliesRemoteUpdate =>
          \A k \in DataKeys(net'.ops[1]) :
              /\ Conflicts(doc, net'.ops[1], k) =>
                    /\ RootValue(doc', k) = RootValue(doc, k)
                    /\ RootValue(doc, k).tag = "n" => RootValue(doc, k).id \in DOMAIN doc'.items
                    /\ k \in DOMAIN PendingOf(doc')
                    /\ PendingOf(doc')[k] = PendingOf(doc)[k]
              /\ k \notin DOMAIN PendingOf(doc) =>
                    RootValue(doc', k) = MapGet(net'.ops[1].data.map, k)]_vars

\* a peer's op on both keys was applied while one of them had a pending
\* local update: that key kept its value, the other took the peer's
OneKeyShielded ==
    /\ last.call = "applyRemoteOperations" /\ last.err = ""
    /\ Len(net.ops) = 1 /\ DataKeys(net.ops[1]) = Keys
    /\ \E k \in Keys :
          /\ Conflicts(pre, net.ops[1], k)
          /\ RootValue(doc, k) = RootValue(pre, k)
          /\ RootValue(doc, k) # RemoteValue
          /\ \E j \in Keys \ {k} :
                /\ j \notin DOMAIN PendingOf(pre)
                /\ RootValue(pre, j) # RemoteValue
                /\ RootValue(doc, j) = RemoteValue

(***************************************************************************)
(* C29: a remote UpdateObject whose opId equals the pending opId of a key  *)
(* clears that key's pending entry and leaves the key's value unchanged;   *)
(* when every key of the op is such an acknowledgement no subscriber is    *)
(* notified and the tree is as before; and a remote UpdateObject that      *)
(* follows the acknowledgement sets the key to its value.                  *)
(***************************************************************************)
AckClearsPending ==
    [][AppliesRemoteUpdate =>
          /\ \A k \in DataKeys(net'.ops[1]) :
                Acknowledges(doc, net'.ops[1], k) =>
                    /\ k \notin DOMAIN PendingOf(doc')
                    /\ RootValue(doc', k) = RootValue(doc, k)
          /\ (\A k \in DataKeys(net'.ops[1]) : Acknowledges(doc, net'.ops[1], k)) =>
                /\ last'.err = ""
                /\ out' = <<>>
                /\ TreeView(doc') = TreeView(doc)
          /\ (last.call = "applyRemoteOperations" /\ Len(net.ops) = 1) =>
                \A k \in DataKeys(net'.ops[1]) \cap DataKeys(net.ops[1]) :
                    (Acknowledges(pre, net.ops[1], k) /\ ~Acknowledges(doc, net'.ops[1], k)) =>
                        RootValue(doc', k) = MapGet(net'.ops[1].data.map, k)]_vars

\* with a subscriber registered, the echo of a local update of both keys was
\* applied, and then a peer's update of a key, which the root took
AppliedAfterAck ==
    /\ last.call = "applyRemoteOperations" /\ last.prev = "applyRemoteOperations"
    /\ doc.subscribers # <<>>
    /\ net.ops[1].opId = RemoteId
    /\ PendingOf(doc) = <<>>
    /\ PendingOf(pre) = <<>>
    /\ Notifications(out) # <<>>
    /\ \E k \in DataKeys(net.ops[1]) :
          RootValue(doc, k) = RemoteValue /\ RootValue(pre, k) = S(2)

(***************************************************************************)
(* C30: every pending entry propToLastUpdate[key] carries the opId of an   *)
(* UpdateObject op that was handed to broadcast and contains that key (a   *)
(* local update writes a pending entry only for the keys whose new value   *)
(* is a scalar).                                                           *)
(***************************************************************************)
PendingWasBroadcast ==
    last.call # "new" =>
        \A k \in DOMAIN PendingOf(doc) :
            \E op \in Range(net.sent) :
                /\ op.type = "UpdateObject"
                /\ op.opId = PendingOf(doc)[k]
                /\ k \in DataKeys(op)

\* update with a node as value has left a pending entry for the key, and no
\* UpdateObject op was broadcast
PendingWithoutOp ==
    /\ last.call = "update" /\ last.err = ""
    /\ RootValue(doc, KeyA).tag = "n"
    /\ KeyA \in DOMAIN PendingOf(doc)
    /\ \A op \in Range(net.sent) : op.type # "UpdateObject"

\* the pending entries of the keys whose value is a scalar carry the opId of
\* a broadcast UpdateObject op that contains the key
ScalarPendingWasBroadcast ==
    last.call # "new" =>
        \A k \in DOMAIN PendingOf(doc) :
            RootValue(doc, k).tag = "s" =>
                \E op \in Range(net.sent) :
                    /\ op.type = "UpdateObject"
                    /\ op.opId = PendingOf(doc)[k]
                    /\ k \in DataKeys(op)

\* the places of the events of one kind among the events of a call
PlacesOf(events, kind) == {i \in DOMAIN events : events[i].e = kind}

(***************************************************************************)
(* C31: undo() and redo() notify the subscribers last: every subscriber    *)
(* invocation of the call comes after the broadcast of the applied ops.    *)
(***************************************************************************)
UndoNotifiesLast ==
    (last.call \in {"undo", "redo"} /\ last.err = "") =>
        \A i \in PlacesOf(out, "broadcast"), j \in PlacesOf(out, "notify") : i < j

\* an undo() that changed the tree called a subscriber and broadcast the
\* popped ops afterwards
UndoNotifiedBeforeBroadcast ==
    /\ last.call = "undo" /\ last.err = ""
    /\ TreeView(doc) # TreeView(pre)
    /\ Len(out) = 2
    /\ out[1].e = "notify"
    /\ out[2].e = "broadcast" /\ out[2].ops # <<>>
    /\ Len(doc.redoStack) = Len(pre.redoStack) + 1

\* undo() and redo() broadcast last: every subscriber has been called when
\* the ops are handed to broadcast, and the call broadcasts once
UndoBroadcastsLast ==
    (last.call \in {"undo", "redo"} /\ last.err = "" /\ out # <<>>) =>
        /\ PlacesOf(out, "broadcast") = {Len(out)}
        /\ PlacesOf(out, "notify") = 1..(Len(out) - 1)

IsPrefix(s, t) == Len(s) <= Len(t) /\ SubSeq(t, 1, Len(s)) = s

\* this step is a local mutator call made inside an open batch
MutatesInBatch == doc.isBatching /\ last'.call \in MutatorCalls /\ last'.n = last.n + 1

\* this step is the commit of the open batch
CommitsBatch == doc.isBatching /\ last'.call = "batch"

(***************************************************************************)
(* C32: while a batch is open a local mutator call invokes neither         *)
(* broadcast nor a subscriber and leaves the undo stack and the redo stack *)
(* unchanged, its ops and reverse ops going behind those of the calls      *)
(* before it; the commit broadcasts once, the forward ops of the calls in  *)
(* call order, and pushes one undo entry, their reverse ops in the same    *)
(* order.                                                                  *)
(***************************************************************************)
BatchDefersCommit ==
    [][/\ MutatesInBatch =>
            /\ out' = <<>>
            /\ doc'.undoStack = doc.undoStack
            /\ doc'.redoStack = doc.redoStack
            /\ IsPrefix(doc.toBatch.ops, doc'.toBatch.ops)
            /\ IsPrefix(doc.toBatch.reverseOps, doc'.toBatch.reverseOps)
            /\ batchLog'.ops = doc'.toBatch.ops
            /\ batchLog'.reverseOps = doc'.toBatch.reverseOps
       /\ CommitsBatch =>
            /\ Broadcasts(out') = <<Broadcast(batchLog.ops)>>
            /\ doc'.undoStack = Append(doc.undoStack, batchLog.reverseOps)]_vars

\* a batch of two mutator calls or more has committed: one broadcast of two
\* forward ops or more, one undo entry that starts with the reverse of the
\* first call
BatchOfCallsCommitted ==
    /\ last.call = "batch" /\ last.err = ""
    /\ batchLog.dispatched >= 2
    /\ Len(batchLog.ops) >= 2
    /\ batchLog.ops[1] # batchLog.ops[2]
    /\ Len(Broadcasts(out)) = 1
    /\ Broadcasts(out)[1].ops = batchLog.ops
    /\ Len(doc.undoStack) = Len(pre.undoStack) + 1
    /\ Last(doc.undoStack) = batchLog.reverseOps
    /\ batchLog.reverseOps[1] # Last(batchLog.reverseOps)

\* this step commits: a local mutator call outside a batch, or the end of a batch
CommitsStep ==
    \/ ~doc.isBatching /\ last'.call \in MutatorCalls /\ last'.n = last.n + 1 /\ last'.err = ""
    \/ CommitsBatch

(***************************************************************************)
(* C33: when a commit is pushed onto an undo stack that holds              *)
(* MAX_UNDO_STACK entries, the oldest entry is discarded and the others    *)
(* keep their order below the new entry.                                   *)
(***************************************************************************)
OldestDiscarded ==
    [][(CommitsStep /\ Len(doc.undoStack) = MAX_UNDO_STACK) =>
          /\ Len(doc'.undoStack) = MAX_UNDO_STACK
          /\ Front(doc'.undoStack) = Tail(doc.undoStack)
          /\ CommitsBatch => Last(doc'.undoStack) = batchLog.reverseOps]_vars

\* an update was committed onto a full undo stack whose newest entry was not
\* equal to its oldest: the newest is now the one below the top
OldestWasDiscarded ==
    /\ last.call = "update" /\ last.err = ""
    /\ Len(pre.undoStack) = MAX_UNDO_STACK
    /\ pre.undoStack[1] # pre.undoStack[MAX_UNDO_STACK]
    /\ Len(doc.undoStack) = MAX_UNDO_STACK
    /\ doc.undoStack[MAX_UNDO_STACK - 1] = pre.undoStack[MAX_UNDO_STACK]
    /\ Last(doc.undoStack) # <<>>

\* the last call was Doc.from, or a subscribe call after it
AfterFrom == last.call \in {"from", "subscribe"} /\ last.n = 0

(***************************************************************************)
(* C34: Doc.from invokes broadcast exactly once, with the serialization of *)
(* the root, notifies no subscriber and pushes an empty reverse list onto  *)
(* the undo stack; undo() called directly after Doc.from changes no node   *)
(* of the tree.                                                            *)
(***************************************************************************)
FromDispatchesRoot ==
    [][/\ last'.call = "from" =>
            /\ out' = <<Broadcast(Serialize(doc'.items, doc'.root, NoId, NoKey))>>
            /\ doc'.undoStack = << <<>> >>
            /\ doc'.redoStack = <<>>
       /\ (AfterFrom /\ Calls("undo")) =>
            /\ last'.err = ""
            /\ doc'.items = doc.items
            /\ doc'.root = doc.root
            /\ Notifications(out') = <<>>]_vars

\* undo() directly after Doc.from of a root with children: the empty entry
\* has moved to the redo stack and the tree is as Doc.from built it
UndoAfterFrom ==
    /\ last.call = "undo" /\ last.n = 1 /\ last.err = ""
    /\ pre.undoStack = << <<>> >>
    /\ doc.undoStack = <<>>
    /\ doc.redoStack = << <<>> >>
    /\ out = <<Broadcast(<<>>)>>
    /\ Cardinality(DOMAIN doc.items) > 1
    /\ doc.items = pre.items

(***************************************************************************)
(* C35: for every list and every index i in [0, length],                   *)
(* LiveList.insert(e, i) leaves e at index i, keeps the previous elements  *)
(* with their positions in their order, gives e a position strictly        *)
(* between those of its two neighbours, and dispatches a Create* op of e   *)
(* with that position whose reverse is DeleteCrdt of the new id.           *)
(***************************************************************************)
InsertPlacesElement ==
    [][(Calls("list.insert") /\ last'.err = "") =>
          LET l == net'.id
              i == net'.index + 1
              old == doc.items[l].items
              new == doc'.items[l].items
          IN  /\ Len(new) = Len(old) + 1
              /\ new[i].id \notin DOMAIN doc.items
              /\ new[i].id \in DOMAIN doc'.items
              /\ doc'.items[new[i].id].parent = l
              /\ RemoveAt(new, i) = old
              /\ i > 1 => compare(new[i - 1].pos, new[i].pos) < 0
              /\ i < Len(new) => compare(new[i].pos, new[i + 1].pos) < 0
              /\ Len(Broadcasts(out')) = 1
              /\ Broadcasts(out')[1].ops # <<>>
              /\ Broadcasts(out')[1].ops[1].type \in CreateTypes
              /\ Broadcasts(out')[1].ops[1].id = new[i].id
              /\ Broadcasts(out')[1].ops[1].parentId = l
              /\ Broadcasts(out')[1].ops[1].parentKey = new[i].pos
              /\ Last(doc'.undoStack) = <<DeleteCrdtOp(new[i].id)>>]_vars

\* a LiveMap was inserted between two elements of a list
InsertedBetween ==
    /\ last.call = "list.insert" /\ last.err = ""
    /\ net.index > 0
    /\ net.index < Len(pre.items[net.id].items)
    /\ LET e == doc.items[net.id].items[net.index + 1]
       IN  /\ e.id \notin DOMAIN pre.items
           /\ doc.items[e.id].type = "Map"
           /\ doc.items[net.id].items[net.index] = pre.items[net.id].items[net.index]
           /\ doc.items[net.id].items[net.index + 2] = pre.items[net.id].items[net.index + 1]

\* the op list this step applies: that of applyRemoteOperations, or the
\* list undo() or redo() pops
AppliedOps ==
    IF Calls("applyRemoteOperations") THEN net'.ops
    ELSE IF Calls("undo") /\ doc.undoStack # <<>> THEN Last(doc.undoStack)
    ELSE IF Calls("redo") /\ doc.redoStack # <<>> THEN Last(doc.redoStack)
    ELSE <<>>

\* this step applies one DeleteCrdt op addressed at an attached node other
\* than the root
AppliesDeleteCrdt ==
    /\ Len(AppliedOps) = 1
    /\ AppliedOps[1].type = "DeleteCrdt"
    /\ AppliedOps[1].id \in DOMAIN doc.items \ {doc.root}

\* no node of the index holds id as a child
HeldByNone(d, id) == \A p \in DOMAIN d.items : id \notin ChildIds(d.items[p])

(***************************************************************************)
(* C36: a DeleteCrdt op, remote or applied by undo() or redo(), addressed  *)
(* at an attached node other than the root removes the node from its       *)
(* parent container and removes the node and all its descendants from the  *)
(* id index, also when the node became a child through a constructor       *)
(* argument.                                                               *)
(***************************************************************************)
DeleteCrdtRemoves ==
    [][AppliesDeleteCrdt =>
          /\ Descendants(doc.items, AppliedOps[1].id) \cap DOMAIN doc'.items = {}
          /\ HeldByNone(doc', AppliedOps[1].id)]_vars

\* a remote DeleteCrdt addressed at a Register of a list built by
\* new LiveList([...]) has left the Register in the list and in the index
ConstructorChildSurvivedDelete ==
    /\ last.call = "applyRemoteOperations" /\ last.err = ""
    /\ Len(net.ops) = 1
    /\ net.ops[1].type = "DeleteCrdt"
    /\ net.ops[1].id \in DOMAIN pre.items
    /\ pre.items[net.ops[1].id].type = "Register"
    /\ pre.items[net.ops[1].id].parent = NoId
    /\ net.ops[1].id \in DOMAIN doc.items
    /\ \E l \in NodesOf(doc, "List") : net.ops[1].id \in ChildIds(doc.items[l])
    /\ doc.items = pre.items
    /\ out = <<>>

\* a DeleteCrdt op addressed at a node that has its parent link removes the
\* node and its descendants from the index and from the parent
LinkedNodeRemoved ==
    [][(AppliesDeleteCrdt /\ doc.items[AppliedOps[1].id].parent # NoId) =>
          /\ Descendants(doc.items, AppliedOps[1].id) \cap DOMAIN doc'.items = {}
          /\ HeldByNone(doc', AppliedOps[1].id)]_vars

\* the children of a container: the child ids of a list in order, the
\* (key, child id) pairs of a map or an object
ChildrenOf(d, c) ==
    IF d.items[c].type = "List"
    THEN [i \in 1..Len(d.items[c].items) |-> d.items[c].items[i].id]
    ELSE {<<d.items[c].map[i].k, d.items[c].map[i].v.id>> :
            i \in {j \in 1..Len(d.items[c].map) : d.items[c].map[j].v.tag = "n"}}

\* the containers whose children the last call added, removed or moved
ChangedContainers ==
    {c \in DOMAIN pre.items \cap DOMAIN doc.items : ChildrenOf(pre, c) # ChildrenOf(doc, c)}

\* the nodes the last call passed to the subscribers
NotifiedNodes == UNION {Range(Notifications(out)[i].nodes) : i \in 1..Len(Notifications(out))}

CommitCalls == MutatorCalls \cup {"undo", "redo", "applyRemoteOperations"}

(***************************************************************************)
(* C37: whenever a local mutator, undo(), redo() or                        *)
(* applyRemoteOperations adds, removes or moves a child of a container,    *)
(* that container is in the modified set passed to the subscribers.        *)
(***************************************************************************)
ChangedContainerNotified ==
    (last.call \in CommitCalls /\ last.err = "" /\ doc.subscribers # <<>>) =>
        ChangedContainers \subseteq NotifiedNodes

\* a remote op has removed or moved an element of a list: the subscriber was
\* called with the element, not with the list
ListChangedUnnotified ==
    /\ last.call = "applyRemoteOperations" /\ last.err = ""
    /\ doc.subscribers # <<>>
    /\ \E l \in ChangedContainers :
          /\ doc.items[l].type = "List"
          /\ l \notin NotifiedNodes
          /\ NotifiedNodes \subseteq ChildIds(pre.items[l])
          /\ NotifiedNodes # {}

\* a local mutator call passes the container it changed to the subscribers
MutatorNotifiesContainer ==
    (last.call \in MutatorCalls /\ last.err = "" /\ doc.subscribers # <<>>) =>
        ChangedContainers \subseteq NotifiedNodes

(***************************************************************************)
(* C38: undo() on an empty undo stack changes nothing, broadcasts nothing  *)
(* and notifies nobody; on a non-empty undo stack it removes exactly the   *)
(* top entry, adds exactly one entry to the redo stack and invokes         *)
(* broadcast exactly once, with the popped list, whether or not a popped   *)
(* op had an effect; redo() does the same with the stacks exchanged.       *)
(***************************************************************************)
UndoMovesOneEntry ==
    [][/\ (Calls("undo") /\ ~doc.isBatching) =>
            IF doc.undoStack = <<>>
            THEN out' = <<>> /\ doc' = doc
            ELSE /\ doc'.undoStack = Front(doc.undoStack)
                 /\ Len(doc'.redoStack) = Len(doc.redoStack) + 1
                 /\ Front(doc'.redoStack) = doc.redoStack
                 /\ Len(Broadcasts(out')) = 1
                 /\ WithoutOpIds(Broadcasts(out')[1].ops) = WithoutOpIds(Last(doc.undoStack))
       /\ (Calls("redo") /\ ~doc.isBatching) =>
            IF doc.redoStack = <<>>
            THEN out' = <<>> /\ doc' = doc
            ELSE /\ doc'.redoStack = Front(doc.redoStack)
                 /\ Len(doc'.undoStack) = Len(doc.undoStack) + 1
                 /\ Front(doc'.undoStack) = doc.undoStack
                 /\ Len(Broadcasts(out')) = 1
                 /\ WithoutOpIds(Broadcasts(out')[1].ops) = WithoutOpIds(Last(doc.redoStack))]_vars

\* undo() after a remote op deleted what the entry addressed: no op had an
\* effect, the popped list was broadcast and an empty entry pushed onto the
\* redo stack
UndoWithoutEffect ==
    /\ last.call = "undo" /\ last.prev = "applyRemoteOperations" /\ last.err = ""
    /\ pre.undoStack # <<>>
    /\ Last(pre.undoStack) # <<>>
    /\ doc.items = pre.items
    /\ doc.undoStack = Front(pre.undoStack)
    /\ doc.redoStack = Append(pre.redoStack, <<>>)
    /\ out = <<Broadcast(Last(pre.undoStack))>>

(***************************************************************************)
(* SpecReenter: one replica with a subscriber whose callback, the first    *)
(* time it is called, sets a key of the root.  The callback is registered  *)
(* once, and until it has run the only calls are undo() and redo().  The   *)
(* undo stack is filled by empty batches; updates, undo() and redo() are   *)
(* called once it is within MaxReenterUpdates + 1 entries of               *)
(* MAX_UNDO_STACK.                                                         *)
(***************************************************************************)
MaxReenterCalls == 53
MaxReenterUpdates == 1

\* update the callback makes: root.set("b", 2)
CallbackOverrides == <<E(KeyB, S(2))>>

\* Doc.subscribe(callback) with the callback that mutates once
DocSubscribeMutating(d) ==
    Outcome([d EXCEPT !.subscribers = Append(@, [kind |-> "mutating", armed |-> TRUE])],
            <<>>, "")

Armed(sub) == sub.kind = "mutating" /\ sub.armed

\* the i-th subscriber's callback runs: the one that mutates calls
\* LiveObject.update, whose dispatch pushes, clears the redo stack,
\* broadcasts and notifies in turn
CallbackRun(d, i) ==
    IF Armed(d.subscribers[i])
    THEN ObjectUpdate([d EXCEPT !.subscribers[i].armed = FALSE], d.root, CallbackOverrides)
    ELSE Outcome(d, <<>>, "")

\* the loop of #notify(modified) from the i-th subscriber on, inside a call
\* outside a batch; NotifyCalled goes on after the i-th callback has run
\* with outcome r
RECURSIVE NotifyFrom(_, _, _, _)
RECURSIVE NotifyCalled(_, _, _, _)
NotifyCalled(r, modified, i, events) ==
    NotifyFrom(r.d, modified, i + 1, events \o <<Notified(i, modified)>> \o r.out)

NotifyFrom(d, modified, i, events) ==
    IF i > Len(d.subscribers) THEN [d |-> d, out |-> events]
    ELSE NotifyCalled(CallbackRun(d, i), modified, i, events)

\* Doc.#notify(modified) with callbacks that may mutate: [d, out]
NotifyMutating(d, modified) ==
    IF modified = <<>> THEN [d |-> d, out |-> <<>>]
    ELSE NotifyFrom(d, modified, 1, <<>>)

\* Doc.undo() once the popped ops are applied (a) and the subscribers
\* notified (n): the reverse is pushed onto the redo stack, the ops broadcast
UndoNotified(a, n) ==
    Outcome([n.d EXCEPT !.redoStack = Append(@, ReverseOf(a.results))],
            n.out \o <<Broadcast(a.ops)>>, "")

UndoApplied(a) == UndoNotified(a, NotifyMutating(a.d, ModifiedOf(a.results)))

\* Doc.undo() with callbacks that may mutate
UndoMutating(d) ==
    IF d.isBatching THEN Outcome(d, <<>>, "undo is not allowed during a batch")
    ELSE IF d.undoStack = <<>> THEN Outcome(d, <<>>, "")
    ELSE UndoApplied(Apply([d EXCEPT !.undoStack = Front(@)], Last(d.undoStack)))

\* Doc.redo() once the popped ops are applied and the subscribers notified
RedoNotified(a, n) ==
    Outcome([n.d EXCEPT !.undoStack = Append(@, ReverseOf(a.results))],
            n.out \o <<Broadcast(a.ops)>>, "")

RedoApplied(a) == RedoNotified(a, NotifyMutating(a.d, ModifiedOf(a.results)))

\* Doc.redo() with callbacks that may mutate
RedoMutating(d) ==
    IF d.isBatching THEN Outcome(d, <<>>, "redo is not allowed during a batch")
    ELSE IF d.redoStack = <<>> THEN Outcome(d, <<>>, "")
    ELSE RedoApplied(Apply([d EXCEPT !.redoStack = Front(@)], Last(d.redoStack)))

SomeArmed(d) == \E i \in 1..Len(d.subscribers) : Armed(d.subscribers[i])

ReenterFrom == FromOf({<<E(KeyA, S(0)), E(KeyB, S(0))>>})

\* batch(() => {})
ReenterEmptyBatch ==
    /\ ~SomeArmed(doc)
    /\ Len(doc.undoStack) < MAX_UNDO_STACK - MaxReenterUpdates
    /\ DocCall("batch", BatchExit(BatchEnter(doc).d), MaxReenterCalls)

ReenterUpdate ==
    /\ ~SomeArmed(doc)
    /\ Len(doc.undoStack) >= MAX_UNDO_STACK - MaxReenterUpdates
    /\ \E o \in ScalarOverrides : Mutate("update", ObjectUpdate(doc, doc.root, o), MaxReenterCalls)

ReenterSubscribe ==
    /\ last.call = "update"
    /\ doc.subscribers = <<>>
    /\ doc' = DocSubscribeMutating(doc).d
    /\ out' = <<>>
    /\ last' = [last EXCEPT !.call = "subscribe", !.prev = last.call]
    /\ pre' = doc
    /\ UNCHANGED <<batchPre, batchLog, peer, net>>

NearFull == Len(doc.undoStack) >= MAX_UNDO_STACK - MaxReenterUpdates - 1

ReenterUndo == NearFull /\ DocCall("undo", UndoMutating(doc), MaxReenterCalls)
ReenterRedo == NearFull /\ DocCall("redo", RedoMutating(doc), MaxReenterCalls)

NextReenter ==
    \/ ReenterFrom
    \/ ReenterEmptyBatch
    \/ ReenterUpdate
    \/ ReenterSubscribe
    \/ ReenterUndo
    \/ ReenterRedo

SpecReenter == Init /\ [][NextReenter]_vars

\* the callback has mutated during the last call: the call broadcast the
\* callback's update and then its own ops
MutatedInCall(call) ==
    /\ last.call = call /\ last.err = ""
    /\ SomeArmed(pre) /\ ~SomeArmed(doc)
    /\ Len(Broadcasts(out)) = 2

(***************************************************************************)
(* C39: when a subscriber performs a local mutation while undo() notifies  *)
(* it, the redo stack is empty after undo() returns, and the undo stack    *)
(* holds at most MAX_UNDO_STACK entries after any following redo().        *)
(***************************************************************************)
MutationInUndoClearsRedo ==
    /\ MutatedInCall("undo") => doc.redoStack = <<>>
    /\ Len(doc.undoStack) <= MAX_UNDO_STACK

\* undo() has returned with the callback's update on top of the undo stack
\* and the reverse of the undone ops on the redo stack
RedoKeptAfterMutation ==
    /\ MutatedInCall("undo")
    /\ Len(doc.redoStack) = 1
    /\ Last(doc.redoStack) # <<>>
    /\ Len(doc.undoStack) = Len(pre.undoStack)
    /\ Last(doc.undoStack) = <<UpdateObjectOp(doc.root, <<E(KeyB, RootValue(pre, KeyB))>>, NoId)>>
    /\ RootValue(doc, KeyB) = S(2)

\* a redo() after such an undo() has pushed a 51st entry onto the undo stack
UndoStackOverfull ==
    /\ last.call = "redo" /\ last.err = ""
    /\ Len(pre.undoStack) = MAX_UNDO_STACK
    /\ Len(doc.undoStack) = MAX_UNDO_STACK + 1

\* the callback's update is dispatched as any other: pushed onto the undo
\* stack and broadcast before undo() broadcasts the popped ops
MutationInUndoDispatched ==
    MutatedInCall("undo") =>
        /\ doc.undoStack # <<>>
        /\ Broadcasts(out)[1].ops # <<>>
        /\ Broadcasts(out)[1].ops[1].type = "UpdateObject"
        /\ Broadcasts(out)[1].ops[1].id = doc.root
        /\ WithoutOpIds(Broadcasts(out)[2].ops) = WithoutOpIds(Last(pre.undoStack))

(***************************************************************************)
(* SpecOpId: one replica whose root holds a LiveObject; local updates of   *)
(* both objects, alone and in batches, undo, redo, and remote ops that     *)
(* update and delete                                                       *)
(***************************************************************************)
MaxOpIdCalls == 3

\* {a: new LiveObject({a: 0}), b: 0}
RootOfObject == <<E(KeyA, Tpl(TObject(<<E(KeyA, S(0))>>))), E(KeyB, S(0))>>

OpIdFrom == FromOf({RootOfObject})
OpIdUpdate == UpdateOf({<<E(KeyA, S(1))>>, <<E(KeyB, EmptyObject)>>}, MaxOpIdCalls)
OpIdBatchBegin == BatchBeginOf(MaxOpIdCalls)
OpIdUndo == UndoOf(MaxOpIdCalls)
OpIdRedo == RedoOf(MaxOpIdCalls)
OpIdRemote == RemoteOf(MaxOpIdCalls)

NextOpId ==
    \/ OpIdFrom
    \/ OpIdUpdate
    \/ OpIdBatchBegin
    \/ BatchEnd
    \/ OpIdUndo
    \/ OpIdRedo
    \/ OpIdRemote

SpecOpId == Init /\ [][NextOpId]_vars

\* the UpdateObject ops the last call handed to broadcast
UpdatesBroadcast ==
    {op \in UNION {Range(Broadcasts(out)[i].ops) : i \in 1..Len(Broadcasts(out))} :
        op.type = "UpdateObject"}

(***************************************************************************)
(* C40: every UpdateObject op handed to the broadcast callback carries an  *)
(* opId, whether it comes from a local update, a batch, undo() or redo(),  *)
(* also when the object the op addresses was deleted before the undo().    *)
(***************************************************************************)
UpdateOpsCarryOpId == \A op \in UpdatesBroadcast : op.opId # NoId

\* undo() after a remote DeleteCrdt of the updated object has broadcast the
\* UpdateObject op of the entry without an opId
UpdateBroadcastWithoutOpId ==
    /\ last.call = "undo" /\ last.prev = "applyRemoteOperations" /\ last.err = ""
    /\ \E op \in UpdatesBroadcast :
          /\ op.opId = NoId
          /\ op.id \notin DOMAIN pre.items
          /\ op.data.map # <<>>
          /\ Last(pre.undoStack) = <<op>>

\* the UpdateObject ops that address an object of the index carry an opId
AppliedUpdateOpsCarryOpId ==
    \A op \in UpdatesBroadcast :
        op.id \in DOMAIN pre.items \cup DOMAIN doc.items => op.opId # NoId
====
